---- MODULE Spec2Model ----
(***************************************************************************)
(* Model of the GKA utilities: the curried DataFrame transforms of         *)
(* utils.py (remove_lines, remove_columns, rename_columns, filter_columns, *)
(* extract_column, clean_key), current_ano_safra, read_safe_excel and the  *)
(* Settings constructor of settings.py.                                    *)
(*                                                                         *)
(* A str is the sequence of its Unicode code points, so that strip, upper, *)
(* lower and str() are computed and not assumed; Text writes one from its  *)
(* characters.  A cell is a record [k, s]: k = "str" for a Python str with *)
(* code points s, and k = "nan", "none", "NA" for float('nan'), None and   *)
(* pd.NA.  A DataFrame is a record [index, columns, dtypes, rows]: the row *)
(* labels, the column names, the column dtypes ("object", or "float64" for *)
(* a column read with nothing but NaN in it) and the rows (each a sequence *)
(* of cells, aligned with columns).  astype(str) is the element-wise str() *)
(* of pandas 1.x / 2.x, the behaviour the replace('NAN', pd.NA) of         *)
(* utils.py:256 is written for.  The case and whitespace tables are those  *)
(* of Unicode 14.                                                          *)
(***************************************************************************)
EXTENDS Integers, Sequences, FiniteSets, TLC

VARIABLES df, prev, arg, op, prevOp, err, out, steps, again,
          month, period,
          rin, rpc, rkw, rlog, rres,
          cfg, spc, sreport, sres

vars == <<df, prev, arg, op, prevOp, err, out, steps, again,
          month, period,
          rin, rpc, rkw, rlog, rres,
          cfg, spc, sreport, sres>>

tableVars == <<df, prev, arg, op, prevOp, err, out, steps, again>>
periodVars == <<month, period>>
readVars == <<rin, rpc, rkw, rlog, rres>>
settingsVars == <<cfg, spc, sreport, sres>>

(* ------------------------------ bounds -------------------------------- *)
MaxRows == 3
MaxSteps == 2
MaxFrameRows == 1
MaxMonth == 40

(* ------------------------------ strings ------------------------------- *)
\* the printable ASCII characters U+0020 .. U+007E in code point order (the grave
\* accent, which no literal here uses, left empty)
Printable ==
  <<
    " ", "!", "\"", "#", "$", "%", "&", "'", "(", ")", "*", "+", ",", "-",
    ".", "/", "0", "1", "2", "3", "4", "5", "6", "7", "8", "9", ":", ";", "<",
    "=", ">", "?", "@", "A", "B", "C", "D", "E", "F", "G", "H", "I", "J", "K",
    "L", "M", "N", "O", "P", "Q", "R", "S", "T", "U", "V", "W", "X", "Y", "Z",
    "[", "\\", "]", "^", "_", "", "a", "b", "c", "d", "e", "f", "g", "h", "i",
    "j", "k", "l", "m", "n", "o", "p", "q", "r", "s", "t", "u", "v", "w", "x",
    "y", "z", "{", "|", "}", "~"
  >>

\* ord(c) of a one-character literal: a tab, a line feed or a printable character
Ord(c) ==
  IF c = "\t" THEN 9
  ELSE IF c = "\n" THEN 10
  ELSE 31 + CHOOSE i \in 1..Len(Printable) : Printable[i] = c

\* the str written as the sequence of its characters
Text(lit) == [i \in 1..Len(lit) |-> Ord(lit[i])]

\* the code points str.strip() removes: those with str.isspace() true
Whitespace ==
  {
    9, 10, 11, 12, 13, 28, 29, 30, 31, 32, 133, 160, 5760, 8192, 8193, 8194,
    8195, 8196, 8197, 8198, 8199, 8200, 8201, 8202, 8232, 8233, 8239, 8287,
    12288
  }

RECURSIVE LStrip(_)
LStrip(s) == IF s # <<>> /\ Head(s) \in Whitespace THEN LStrip(Tail(s)) ELSE s

RECURSIVE RStrip(_)
RStrip(s) ==
  IF s # <<>> /\ s[Len(s)] \in Whitespace THEN RStrip(SubSeq(s, 1, Len(s) - 1)) ELSE s

\* str.strip()
Strip(s) == RStrip(LStrip(s))

(* Case conversion: the code points str.upper() and str.lower() change, in  *)
(* code point order, and what each becomes (a string: the full mapping      *)
(* gives more than one character for some, as "SS" for the sharp s).        *)
UpperFrom ==
  <<
    97, 98, 99, 100, 101, 102, 103, 104, 105, 106, 107, 108, 109, 110, 111,
    112, 113, 114, 115, 116, 117, 118, 119, 120, 121, 122, 181, 223, 224, 225,
    226, 227, 228, 229, 230, 231, 232, 233, 234, 235, 236, 237, 238, 239, 240,
    241, 242, 243, 244, 245, 246, 248, 249, 250, 251, 252, 253, 254, 255, 257,
    259, 261, 263, 265, 267, 269, 271, 273, 275, 277, 279, 281, 283, 285, 287,
    289, 291, 293, 295, 297, 299, 301, 303, 305, 307, 309, 311, 314, 316, 318,
    320, 322, 324, 326, 328, 329, 331, 333, 335, 337, 339, 341, 343, 345, 347,
    349, 351, 353, 355, 357, 359, 361, 363, 365, 367, 369, 371, 373, 375, 378,
    380, 382, 383, 384, 387, 389, 392, 396, 402, 405, 409, 410, 414, 417, 419,
    421, 424, 429, 432, 436, 438, 441, 445, 447, 453, 454, 456, 457, 459, 460,
    462, 464, 466, 468, 470, 472, 474, 476, 477, 479, 481, 483, 485, 487, 489,
    491, 493, 495, 496, 498, 499, 501, 505, 507, 509, 511, 513, 515, 517, 519,
    521, 523, 525, 527, 529, 531, 533, 535, 537, 539, 541, 543, 547, 549, 551,
    553, 555, 557, 559, 561, 563, 572, 575, 576, 578, 583, 585, 587, 589, 591,
    592, 593, 594, 595, 596, 598, 599, 601, 603, 604, 608, 609, 611, 613, 614,
    616, 617, 618, 619, 620, 623, 625, 626, 629, 637, 640, 642, 643, 647, 648,
    649, 650, 651, 652, 658, 669, 670, 837, 881, 883, 887, 891, 892, 893, 912,
    940, 941, 942, 943, 944, 945, 946, 947, 948, 949, 950, 951, 952, 953, 954,
    955, 956, 957, 958, 959, 960, 961, 962, 963, 964, 965, 966, 967, 968, 969,
    970, 971, 972, 973, 974, 976, 977, 981, 982, 983, 985, 987, 989, 991, 993,
    995, 997, 999, 1001, 1003, 1005, 1007, 1008, 1009, 1010, 1011, 1013, 1016,
    1019, 1072, 1073, 1074, 1075, 1076, 1077, 1078, 1079, 1080, 1081, 1082,
    1083, 1084, 1085, 1086, 1087, 1088, 1089, 1090, 1091, 1092, 1093, 1094,
    1095, 1096, 1097, 1098, 1099, 1100, 1101, 1102, 1103, 1104, 1105, 1106,
    1107, 1108, 1109, 1110, 1111, 1112, 1113, 1114, 1115, 1116, 1117, 1118,
    1119, 1121, 1123, 1125, 1127, 1129, 1131, 1133, 1135, 1137, 1139, 1141,
    1143, 1145, 1147, 1149, 1151, 1153, 1163, 1165, 1167, 1169, 1171, 1173,
    1175, 1177, 1179, 1181, 1183, 1185, 1187, 1189, 1191, 1193, 1195, 1197,
    1199, 1201, 1203, 1205, 1207, 1209, 1211, 1213, 1215, 1218, 1220, 1222,
    1224, 1226, 1228, 1230, 1231, 1233, 1235, 1237, 1239, 1241, 1243, 1245,
    1247, 1249, 1251, 1253, 1255, 1257, 1259, 1261, 1263, 1265, 1267, 1269,
    1271, 1273, 1275, 1277, 1279, 1281, 1283, 1285, 1287, 1289, 1291, 1293,
    1295, 1297, 1299, 1301, 1303, 1305, 1307, 1309, 1311, 1313, 1315, 1317,
    1319, 1321, 1323, 1325, 1327, 1377, 1378, 1379, 1380, 1381, 1382, 1383,
    1384, 1385, 1386, 1387, 1388, 1389, 1390, 1391, 1392, 1393, 1394, 1395,
    1396, 1397, 1398, 1399, 1400, 1401, 1402, 1403, 1404, 1405, 1406, 1407,
    1408, 1409, 1410, 1411, 1412, 1413, 1414, 1415, 4304, 4305, 4306, 4307,
    4308, 4309, 4310, 4311, 4312, 4313, 4314, 4315, 4316, 4317, 4318, 4319,
    4320, 4321, 4322, 4323, 4324, 4325, 4326, 4327, 4328, 4329, 4330, 4331,
    4332, 4333, 4334, 4335, 4336, 4337, 4338, 4339, 4340, 4341, 4342, 4343,
    4344, 4345, 4346, 4349, 4350, 4351, 5112, 5113, 5114, 5115, 5116, 5117,
    7296, 7297, 7298, 7299, 7300, 7301, 7302, 7303, 7304, 7545, 7549, 7566,
    7681, 7683, 7685, 7687, 7689, 7691, 7693, 7695, 7697, 7699, 7701, 7703,
    7705, 7707, 7709, 7711, 7713, 7715, 7717, 7719, 7721, 7723, 7725, 7727,
    7729, 7731, 7733, 7735, 7737, 7739, 7741, 7743, 7745, 7747, 7749, 7751,
    7753, 7755, 7757, 7759, 7761, 7763, 7765, 7767, 7769, 7771, 7773, 7775,
    7777, 7779, 7781, 7783, 7785, 7787, 7789, 7791, 7793, 7795, 7797, 7799,
    7801, 7803, 7805, 7807, 7809, 7811, 7813, 7815, 7817, 7819, 7821, 7823,
    7825, 7827, 7829, 7830, 7831, 7832, 7833, 7834, 7835, 7841, 7843, 7845,
    7847, 7849, 7851, 7853, 7855, 7857, 7859, 7861, 7863, 7865, 7867, 7869,
    7871, 7873, 7875, 7877, 7879, 7881, 7883, 7885, 7887, 7889, 7891, 7893,
    7895, 7897, 7899, 7901, 7903, 7905, 7907, 7909, 7911, 7913, 7915, 7917,
    7919, 7921, 7923, 7925, 7927, 7929, 7931, 7933, 7935, 7936, 7937, 7938,
    7939, 7940, 7941, 7942, 7943, 7952, 7953, 7954, 7955, 7956, 7957, 7968,
    7969, 7970, 7971, 7972, 7973, 7974, 7975, 7984, 7985, 7986, 7987, 7988,
    7989, 7990, 7991, 8000, 8001, 8002, 8003, 8004, 8005, 8016, 8017, 8018,
    8019, 8020, 8021, 8022, 8023, 8032, 8033, 8034, 8035, 8036, 8037, 8038,
    8039, 8048, 8049, 8050, 8051, 8052, 8053, 8054, 8055, 8056, 8057, 8058,
    8059, 8060, 8061, 8064, 8065, 8066, 8067, 8068, 8069, 8070, 8071, 8072,
    8073, 8074, 8075, 8076, 8077, 8078, 8079, 8080, 8081, 8082, 8083, 8084,
    8085, 8086, 8087, 8088, 8089, 8090, 8091, 8092, 8093, 8094, 8095, 8096,
    8097, 8098, 8099, 8100, 8101, 8102, 8103, 8104, 8105, 8106, 8107, 8108,
    8109, 8110, 8111, 8112, 8113, 8114, 8115, 8116, 8118, 8119, 8124, 8126,
    8130, 8131, 8132, 8134, 8135, 8140, 8144, 8145, 8146, 8147, 8150, 8151,
    8160, 8161, 8162, 8163, 8164, 8165, 8166, 8167, 8178, 8179, 8180, 8182,
    8183, 8188, 8526, 8560, 8561, 8562, 8563, 8564, 8565, 8566, 8567, 8568,
    8569, 8570, 8571, 8572, 8573, 8574, 8575, 8580, 9424, 9425, 9426, 9427,
    9428, 9429, 9430, 9431, 9432, 9433, 9434, 9435, 9436, 9437, 9438, 9439,
    9440, 9441, 9442, 9443, 9444, 9445, 9446, 9447, 9448, 9449, 11312, 11313,
    11314, 11315, 11316, 11317, 11318, 11319, 11320, 11321, 11322, 11323,
    11324, 11325, 11326, 11327, 11328, 11329, 11330, 11331, 11332, 11333,
    11334, 11335, 11336, 11337, 11338, 11339, 11340, 11341, 11342, 11343,
    11344, 11345, 11346, 11347, 11348, 11349, 11350, 11351, 11352, 11353,
    11354, 11355, 11356, 11357, 11358, 11359, 11361, 11365, 11366, 11368,
    11370, 11372, 11379, 11382, 11393, 11395, 11397, 11399, 11401, 11403,
    11405, 11407, 11409, 11411, 11413, 11415, 11417, 11419, 11421, 11423,
    11425, 11427, 11429, 11431, 11433, 11435, 11437, 11439, 11441, 11443,
    11445, 11447, 11449, 11451, 11453, 11455, 11457, 11459, 11461, 11463,
    11465, 11467, 11469, 11471, 11473, 11475, 11477, 11479, 11481, 11483,
    11485, 11487, 11489, 11491, 11500, 11502, 11507, 11520, 11521, 11522,
    11523, 11524, 11525, 11526, 11527, 11528, 11529, 11530, 11531, 11532,
    11533, 11534, 11535, 11536, 11537, 11538, 11539, 11540, 11541, 11542,
    11543, 11544, 11545, 11546, 11547, 11548, 11549, 11550, 11551, 11552,
    11553, 11554, 11555, 11556, 11557, 11559, 11565, 42561, 42563, 42565,
    42567, 42569, 42571, 42573, 42575, 42577, 42579, 42581, 42583, 42585,
    42587, 42589, 42591, 42593, 42595, 42597, 42599, 42601, 42603, 42605,
    42625, 42627, 42629, 42631, 42633, 42635, 42637, 42639, 42641, 42643,
    42645, 42647, 42649, 42651, 42787, 42789, 42791, 42793, 42795, 42797,
    42799, 42803, 42805, 42807, 42809, 42811, 42813, 42815, 42817, 42819,
    42821, 42823, 42825, 42827, 42829, 42831, 42833, 42835, 42837, 42839,
    42841, 42843, 42845, 42847, 42849, 42851, 42853, 42855, 42857, 42859,
    42861, 42863, 42874, 42876, 42879, 42881, 42883, 42885, 42887, 42892,
    42897, 42899, 42900, 42903, 42905, 42907, 42909, 42911, 42913, 42915,
    42917, 42919, 42921, 42933, 42935, 42937, 42939, 42941, 42943, 42945,
    42947, 42952, 42954, 42961, 42967, 42969, 42998, 43859, 43888, 43889,
    43890, 43891, 43892, 43893, 43894, 43895, 43896, 43897, 43898, 43899,
    43900, 43901, 43902, 43903, 43904, 43905, 43906, 43907, 43908, 43909,
    43910, 43911, 43912, 43913, 43914, 43915, 43916, 43917, 43918, 43919,
    43920, 43921, 43922, 43923, 43924, 43925, 43926, 43927, 43928, 43929,
    43930, 43931, 43932, 43933, 43934, 43935, 43936, 43937, 43938, 43939,
    43940, 43941, 43942, 43943, 43944, 43945, 43946, 43947, 43948, 43949,
    43950, 43951, 43952, 43953, 43954, 43955, 43956, 43957, 43958, 43959,
    43960, 43961, 43962, 43963, 43964, 43965, 43966, 43967, 64256, 64257,
    64258, 64259, 64260, 64261, 64262, 64275, 64276, 64277, 64278, 64279,
    65345, 65346, 65347, 65348, 65349, 65350, 65351, 65352, 65353, 65354,
    65355, 65356, 65357, 65358, 65359, 65360, 65361, 65362, 65363, 65364,
    65365, 65366, 65367, 65368, 65369, 65370, 66600, 66601, 66602, 66603,
    66604, 66605, 66606, 66607, 66608, 66609, 66610, 66611, 66612, 66613,
    66614, 66615, 66616, 66617, 66618, 66619, 66620, 66621, 66622, 66623,
    66624, 66625, 66626, 66627, 66628, 66629, 66630, 66631, 66632, 66633,
    66634, 66635, 66636, 66637, 66638, 66639, 66776, 66777, 66778, 66779,
    66780, 66781, 66782, 66783, 66784, 66785, 66786, 66787, 66788, 66789,
    66790, 66791, 66792, 66793, 66794, 66795, 66796, 66797, 66798, 66799,
    66800, 66801, 66802, 66803, 66804, 66805, 66806, 66807, 66808, 66809,
    66810, 66811, 66967, 66968, 66969, 66970, 66971, 66972, 66973, 66974,
    66975, 66976, 66977, 66979, 66980, 66981, 66982, 66983, 66984, 66985,
    66986, 66987, 66988, 66989, 66990, 66991, 66992, 66993, 66995, 66996,
    66997, 66998, 66999, 67000, 67001, 67003, 67004, 68800, 68801, 68802,
    68803, 68804, 68805, 68806, 68807, 68808, 68809, 68810, 68811, 68812,
    68813, 68814, 68815, 68816, 68817, 68818, 68819, 68820, 68821, 68822,
    68823, 68824, 68825, 68826, 68827, 68828, 68829, 68830, 68831, 68832,
    68833, 68834, 68835, 68836, 68837, 68838, 68839, 68840, 68841, 68842,
    68843, 68844, 68845, 68846, 68847, 68848, 68849, 68850, 71872, 71873,
    71874, 71875, 71876, 71877, 71878, 71879, 71880, 71881, 71882, 71883,
    71884, 71885, 71886, 71887, 71888, 71889, 71890, 71891, 71892, 71893,
    71894, 71895, 71896, 71897, 71898, 71899, 71900, 71901, 71902, 71903,
    93792, 93793, 93794, 93795, 93796, 93797, 93798, 93799, 93800, 93801,
    93802, 93803, 93804, 93805, 93806, 93807, 93808, 93809, 93810, 93811,
    93812, 93813, 93814, 93815, 93816, 93817, 93818, 93819, 93820, 93821,
    93822, 93823, 125218, 125219, 125220, 125221, 125222, 125223, 125224,
    125225, 125226, 125227, 125228, 125229, 125230, 125231, 125232, 125233,
    125234, 125235, 125236, 125237, 125238, 125239, 125240, 125241, 125242,
    125243, 125244, 125245, 125246, 125247, 125248, 125249, 125250, 125251
  >>
UpperTo ==
  <<
    <<65>>, <<66>>, <<67>>, <<68>>, <<69>>, <<70>>, <<71>>, <<72>>, <<73>>,
    <<74>>, <<75>>, <<76>>, <<77>>, <<78>>, <<79>>, <<80>>, <<81>>, <<82>>,
    <<83>>, <<84>>, <<85>>, <<86>>, <<87>>, <<88>>, <<89>>, <<90>>, <<924>>,
    <<83, 83>>, <<192>>, <<193>>, <<194>>, <<195>>, <<196>>, <<197>>, <<198>>,
    <<199>>, <<200>>, <<201>>, <<202>>, <<203>>, <<204>>, <<205>>, <<206>>,
    <<207>>, <<208>>, <<209>>, <<210>>, <<211>>, <<212>>, <<213>>, <<214>>,
    <<216>>, <<217>>, <<218>>, <<219>>, <<220>>, <<221>>, <<222>>, <<376>>,
    <<256>>, <<258>>, <<260>>, <<262>>, <<264>>, <<266>>, <<268>>, <<270>>,
    <<272>>, <<274>>, <<276>>, <<278>>, <<280>>, <<282>>, <<284>>, <<286>>,
    <<288>>, <<290>>, <<292>>, <<294>>, <<296>>, <<298>>, <<300>>, <<302>>,
    <<73>>, <<306>>, <<308>>, <<310>>, <<313>>, <<315>>, <<317>>, <<319>>,
    <<321>>, <<323>>, <<325>>, <<327>>, <<700, 78>>, <<330>>, <<332>>,
    <<334>>, <<336>>, <<338>>, <<340>>, <<342>>, <<344>>, <<346>>, <<348>>,
    <<350>>, <<352>>, <<354>>, <<356>>, <<358>>, <<360>>, <<362>>, <<364>>,
    <<366>>, <<368>>, <<370>>, <<372>>, <<374>>, <<377>>, <<379>>, <<381>>,
    <<83>>, <<579>>, <<386>>, <<388>>, <<391>>, <<395>>, <<401>>, <<502>>,
    <<408>>, <<573>>, <<544>>, <<416>>, <<418>>, <<420>>, <<423>>, <<428>>,
    <<431>>, <<435>>, <<437>>, <<440>>, <<444>>, <<503>>, <<452>>, <<452>>,
    <<455>>, <<455>>, <<458>>, <<458>>, <<461>>, <<463>>, <<465>>, <<467>>,
    <<469>>, <<471>>, <<473>>, <<475>>, <<398>>, <<478>>, <<480>>, <<482>>,
    <<484>>, <<486>>, <<488>>, <<490>>, <<492>>, <<494>>, <<74, 780>>,
    <<497>>, <<497>>, <<500>>, <<504>>, <<506>>, <<508>>, <<510>>, <<512>>,
    <<514>>, <<516>>, <<518>>, <<520>>, <<522>>, <<524>>, <<526>>, <<528>>,
    <<530>>, <<532>>, <<534>>, <<536>>, <<538>>, <<540>>, <<542>>, <<546>>,
    <<548>>, <<550>>, <<552>>, <<554>>, <<556>>, <<558>>, <<560>>, <<562>>,
    <<571>>, <<11390>>, <<11391>>, <<577>>, <<582>>, <<584>>, <<586>>,
    <<588>>, <<590>>, <<11375>>, <<11373>>, <<11376>>, <<385>>, <<390>>,
    <<393>>, <<394>>, <<399>>, <<400>>, <<42923>>, <<403>>, <<42924>>,
    <<404>>, <<42893>>, <<42922>>, <<407>>, <<406>>, <<42926>>, <<11362>>,
    <<42925>>, <<412>>, <<11374>>, <<413>>, <<415>>, <<11364>>, <<422>>,
    <<42949>>, <<425>>, <<42929>>, <<430>>, <<580>>, <<433>>, <<434>>,
    <<581>>, <<439>>, <<42930>>, <<42928>>, <<921>>, <<880>>, <<882>>,
    <<886>>, <<1021>>, <<1022>>, <<1023>>, <<921, 776, 769>>, <<902>>,
    <<904>>, <<905>>, <<906>>, <<933, 776, 769>>, <<913>>, <<914>>, <<915>>,
    <<916>>, <<917>>, <<918>>, <<919>>, <<920>>, <<921>>, <<922>>, <<923>>,
    <<924>>, <<925>>, <<926>>, <<927>>, <<928>>, <<929>>, <<931>>, <<931>>,
    <<932>>, <<933>>, <<934>>, <<935>>, <<936>>, <<937>>, <<938>>, <<939>>,
    <<908>>, <<910>>, <<911>>, <<914>>, <<920>>, <<934>>, <<928>>, <<975>>,
    <<984>>, <<986>>, <<988>>, <<990>>, <<992>>, <<994>>, <<996>>, <<998>>,
    <<1000>>, <<1002>>, <<1004>>, <<1006>>, <<922>>, <<929>>, <<1017>>,
    <<895>>, <<917>>, <<1015>>, <<1018>>, <<1040>>, <<1041>>, <<1042>>,
    <<1043>>, <<1044>>, <<1045>>, <<1046>>, <<1047>>, <<1048>>, <<1049>>,
    <<1050>>, <<1051>>, <<1052>>, <<1053>>, <<1054>>, <<1055>>, <<1056>>,
    <<1057>>, <<1058>>, <<1059>>, <<1060>>, <<1061>>, <<1062>>, <<1063>>,
    <<1064>>, <<1065>>, <<1066>>, <<1067>>, <<1068>>, <<1069>>, <<1070>>,
    <<1071>>, <<1024>>, <<1025>>, <<1026>>, <<1027>>, <<1028>>, <<1029>>,
    <<1030>>, <<1031>>, <<1032>>, <<1033>>, <<1034>>, <<1035>>, <<1036>>,
    <<1037>>, <<1038>>, <<1039>>, <<1120>>, <<1122>>, <<1124>>, <<1126>>,
    <<1128>>, <<1130>>, <<1132>>, <<1134>>, <<1136>>, <<1138>>, <<1140>>,
    <<1142>>, <<1144>>, <<1146>>, <<1148>>, <<1150>>, <<1152>>, <<1162>>,
    <<1164>>, <<1166>>, <<1168>>, <<1170>>, <<1172>>, <<1174>>, <<1176>>,
    <<1178>>, <<1180>>, <<1182>>, <<1184>>, <<1186>>, <<1188>>, <<1190>>,
    <<1192>>, <<1194>>, <<1196>>, <<1198>>, <<1200>>, <<1202>>, <<1204>>,
    <<1206>>, <<1208>>, <<1210>>, <<1212>>, <<1214>>, <<1217>>, <<1219>>,
    <<1221>>, <<1223>>, <<1225>>, <<1227>>, <<1229>>, <<1216>>, <<1232>>,
    <<1234>>, <<1236>>, <<1238>>, <<1240>>, <<1242>>, <<1244>>, <<1246>>,
    <<1248>>, <<1250>>, <<1252>>, <<1254>>, <<1256>>, <<1258>>, <<1260>>,
    <<1262>>, <<1264>>, <<1266>>, <<1268>>, <<1270>>, <<1272>>, <<1274>>,
    <<1276>>, <<1278>>, <<1280>>, <<1282>>, <<1284>>, <<1286>>, <<1288>>,
    <<1290>>, <<1292>>, <<1294>>, <<1296>>, <<1298>>, <<1300>>, <<1302>>,
    <<1304>>, <<1306>>, <<1308>>, <<1310>>, <<1312>>, <<1314>>, <<1316>>,
    <<1318>>, <<1320>>, <<1322>>, <<1324>>, <<1326>>, <<1329>>, <<1330>>,
    <<1331>>, <<1332>>, <<1333>>, <<1334>>, <<1335>>, <<1336>>, <<1337>>,
    <<1338>>, <<1339>>, <<1340>>, <<1341>>, <<1342>>, <<1343>>, <<1344>>,
    <<1345>>, <<1346>>, <<1347>>, <<1348>>, <<1349>>, <<1350>>, <<1351>>,
    <<1352>>, <<1353>>, <<1354>>, <<1355>>, <<1356>>, <<1357>>, <<1358>>,
    <<1359>>, <<1360>>, <<1361>>, <<1362>>, <<1363>>, <<1364>>, <<1365>>,
    <<1366>>, <<1333, 1362>>, <<7312>>, <<7313>>, <<7314>>, <<7315>>,
    <<7316>>, <<7317>>, <<7318>>, <<7319>>, <<7320>>, <<7321>>, <<7322>>,
    <<7323>>, <<7324>>, <<7325>>, <<7326>>, <<7327>>, <<7328>>, <<7329>>,
    <<7330>>, <<7331>>, <<7332>>, <<7333>>, <<7334>>, <<7335>>, <<7336>>,
    <<7337>>, <<7338>>, <<7339>>, <<7340>>, <<7341>>, <<7342>>, <<7343>>,
    <<7344>>, <<7345>>, <<7346>>, <<7347>>, <<7348>>, <<7349>>, <<7350>>,
    <<7351>>, <<7352>>, <<7353>>, <<7354>>, <<7357>>, <<7358>>, <<7359>>,
    <<5104>>, <<5105>>, <<5106>>, <<5107>>, <<5108>>, <<5109>>, <<1042>>,
    <<1044>>, <<1054>>, <<1057>>, <<1058>>, <<1058>>, <<1066>>, <<1122>>,
    <<42570>>, <<42877>>, <<11363>>, <<42950>>, <<7680>>, <<7682>>, <<7684>>,
    <<7686>>, <<7688>>, <<7690>>, <<7692>>, <<7694>>, <<7696>>, <<7698>>,
    <<7700>>, <<7702>>, <<7704>>, <<7706>>, <<7708>>, <<7710>>, <<7712>>,
    <<7714>>, <<7716>>, <<7718>>, <<7720>>, <<7722>>, <<7724>>, <<7726>>,
    <<7728>>, <<7730>>, <<7732>>, <<7734>>, <<7736>>, <<7738>>, <<7740>>,
    <<7742>>, <<7744>>, <<7746>>, <<7748>>, <<7750>>, <<7752>>, <<7754>>,
    <<7756>>, <<7758>>, <<7760>>, <<7762>>, <<7764>>, <<7766>>, <<7768>>,
    <<7770>>, <<7772>>, <<7774>>, <<7776>>, <<7778>>, <<7780>>, <<7782>>,
    <<7784>>, <<7786>>, <<7788>>, <<7790>>, <<7792>>, <<7794>>, <<7796>>,
    <<7798>>, <<7800>>, <<7802>>, <<7804>>, <<7806>>, <<7808>>, <<7810>>,
    <<7812>>, <<7814>>, <<7816>>, <<7818>>, <<7820>>, <<7822>>, <<7824>>,
    <<7826>>, <<7828>>, <<72, 817>>, <<84, 776>>, <<87, 778>>, <<89, 778>>,
    <<65, 702>>, <<7776>>, <<7840>>, <<7842>>, <<7844>>, <<7846>>, <<7848>>,
    <<7850>>, <<7852>>, <<7854>>, <<7856>>, <<7858>>, <<7860>>, <<7862>>,
    <<7864>>, <<7866>>, <<7868>>, <<7870>>, <<7872>>, <<7874>>, <<7876>>,
    <<7878>>, <<7880>>, <<7882>>, <<7884>>, <<7886>>, <<7888>>, <<7890>>,
    <<7892>>, <<7894>>, <<7896>>, <<7898>>, <<7900>>, <<7902>>, <<7904>>,
    <<7906>>, <<7908>>, <<7910>>, <<7912>>, <<7914>>, <<7916>>, <<7918>>,
    <<7920>>, <<7922>>, <<7924>>, <<7926>>, <<7928>>, <<7930>>, <<7932>>,
    <<7934>>, <<7944>>, <<7945>>, <<7946>>, <<7947>>, <<7948>>, <<7949>>,
    <<7950>>, <<7951>>, <<7960>>, <<7961>>, <<7962>>, <<7963>>, <<7964>>,
    <<7965>>, <<7976>>, <<7977>>, <<7978>>, <<7979>>, <<7980>>, <<7981>>,
    <<7982>>, <<7983>>, <<7992>>, <<7993>>, <<7994>>, <<7995>>, <<7996>>,
    <<7997>>, <<7998>>, <<7999>>, <<8008>>, <<8009>>, <<8010>>, <<8011>>,
    <<8012>>, <<8013>>, <<933, 787>>, <<8025>>, <<933, 787, 768>>, <<8027>>,
    <<933, 787, 769>>, <<8029>>, <<933, 787, 834>>, <<8031>>, <<8040>>,
    <<8041>>, <<8042>>, <<8043>>, <<8044>>, <<8045>>, <<8046>>, <<8047>>,
    <<8122>>, <<8123>>, <<8136>>, <<8137>>, <<8138>>, <<8139>>, <<8154>>,
    <<8155>>, <<8184>>, <<8185>>, <<8170>>, <<8171>>, <<8186>>, <<8187>>,
    <<7944, 921>>, <<7945, 921>>, <<7946, 921>>, <<7947, 921>>, <<7948, 921>>,
    <<7949, 921>>, <<7950, 921>>, <<7951, 921>>, <<7944, 921>>, <<7945, 921>>,
    <<7946, 921>>, <<7947, 921>>, <<7948, 921>>, <<7949, 921>>, <<7950, 921>>,
    <<7951, 921>>, <<7976, 921>>, <<7977, 921>>, <<7978, 921>>, <<7979, 921>>,
    <<7980, 921>>, <<7981, 921>>, <<7982, 921>>, <<7983, 921>>, <<7976, 921>>,
    <<7977, 921>>, <<7978, 921>>, <<7979, 921>>, <<7980, 921>>, <<7981, 921>>,
    <<7982, 921>>, <<7983, 921>>, <<8040, 921>>, <<8041, 921>>, <<8042, 921>>,
    <<8043, 921>>, <<8044, 921>>, <<8045, 921>>, <<8046, 921>>, <<8047, 921>>,
    <<8040, 921>>, <<8041, 921>>, <<8042, 921>>, <<8043, 921>>, <<8044, 921>>,
    <<8045, 921>>, <<8046, 921>>, <<8047, 921>>, <<8120>>, <<8121>>,
    <<8122, 921>>, <<913, 921>>, <<902, 921>>, <<913, 834>>,
    <<913, 834, 921>>, <<913, 921>>, <<921>>, <<8138, 921>>, <<919, 921>>,
    <<905, 921>>, <<919, 834>>, <<919, 834, 921>>, <<919, 921>>, <<8152>>,
    <<8153>>, <<921, 776, 768>>, <<921, 776, 769>>, <<921, 834>>,
    <<921, 776, 834>>, <<8168>>, <<8169>>, <<933, 776, 768>>,
    <<933, 776, 769>>, <<929, 787>>, <<8172>>, <<933, 834>>,
    <<933, 776, 834>>, <<8186, 921>>, <<937, 921>>, <<911, 921>>,
    <<937, 834>>, <<937, 834, 921>>, <<937, 921>>, <<8498>>, <<8544>>,
    <<8545>>, <<8546>>, <<8547>>, <<8548>>, <<8549>>, <<8550>>, <<8551>>,
    <<8552>>, <<8553>>, <<8554>>, <<8555>>, <<8556>>, <<8557>>, <<8558>>,
    <<8559>>, <<8579>>, <<9398>>, <<9399>>, <<9400>>, <<9401>>, <<9402>>,
    <<9403>>, <<9404>>, <<9405>>, <<9406>>, <<9407>>, <<9408>>, <<9409>>,
    <<9410>>, <<9411>>, <<9412>>, <<9413>>, <<9414>>, <<9415>>, <<9416>>,
    <<9417>>, <<9418>>, <<9419>>, <<9420>>, <<9421>>, <<9422>>, <<9423>>,
    <<11264>>, <<11265>>, <<11266>>, <<11267>>, <<11268>>, <<11269>>,
    <<11270>>, <<11271>>, <<11272>>, <<11273>>, <<11274>>, <<11275>>,
    <<11276>>, <<11277>>, <<11278>>, <<11279>>, <<11280>>, <<11281>>,
    <<11282>>, <<11283>>, <<11284>>, <<11285>>, <<11286>>, <<11287>>,
    <<11288>>, <<11289>>, <<11290>>, <<11291>>, <<11292>>, <<11293>>,
    <<11294>>, <<11295>>, <<11296>>, <<11297>>, <<11298>>, <<11299>>,
    <<11300>>, <<11301>>, <<11302>>, <<11303>>, <<11304>>, <<11305>>,
    <<11306>>, <<11307>>, <<11308>>, <<11309>>, <<11310>>, <<11311>>,
    <<11360>>, <<570>>, <<574>>, <<11367>>, <<11369>>, <<11371>>, <<11378>>,
    <<11381>>, <<11392>>, <<11394>>, <<11396>>, <<11398>>, <<11400>>,
    <<11402>>, <<11404>>, <<11406>>, <<11408>>, <<11410>>, <<11412>>,
    <<11414>>, <<11416>>, <<11418>>, <<11420>>, <<11422>>, <<11424>>,
    <<11426>>, <<11428>>, <<11430>>, <<11432>>, <<11434>>, <<11436>>,
    <<11438>>, <<11440>>, <<11442>>, <<11444>>, <<11446>>, <<11448>>,
    <<11450>>, <<11452>>, <<11454>>, <<11456>>, <<11458>>, <<11460>>,
    <<11462>>, <<11464>>, <<11466>>, <<11468>>, <<11470>>, <<11472>>,
    <<11474>>, <<11476>>, <<11478>>, <<11480>>, <<11482>>, <<11484>>,
    <<11486>>, <<11488>>, <<11490>>, <<11499>>, <<11501>>, <<11506>>,
    <<4256>>, <<4257>>, <<4258>>, <<4259>>, <<4260>>, <<4261>>, <<4262>>,
    <<4263>>, <<4264>>, <<4265>>, <<4266>>, <<4267>>, <<4268>>, <<4269>>,
    <<4270>>, <<4271>>, <<4272>>, <<4273>>, <<4274>>, <<4275>>, <<4276>>,
    <<4277>>, <<4278>>, <<4279>>, <<4280>>, <<4281>>, <<4282>>, <<4283>>,
    <<4284>>, <<4285>>, <<4286>>, <<4287>>, <<4288>>, <<4289>>, <<4290>>,
    <<4291>>, <<4292>>, <<4293>>, <<4295>>, <<4301>>, <<42560>>, <<42562>>,
    <<42564>>, <<42566>>, <<42568>>, <<42570>>, <<42572>>, <<42574>>,
    <<42576>>, <<42578>>, <<42580>>, <<42582>>, <<42584>>, <<42586>>,
    <<42588>>, <<42590>>, <<42592>>, <<42594>>, <<42596>>, <<42598>>,
    <<42600>>, <<42602>>, <<42604>>, <<42624>>, <<42626>>, <<42628>>,
    <<42630>>, <<42632>>, <<42634>>, <<42636>>, <<42638>>, <<42640>>,
    <<42642>>, <<42644>>, <<42646>>, <<42648>>, <<42650>>, <<42786>>,
    <<42788>>, <<42790>>, <<42792>>, <<42794>>, <<42796>>, <<42798>>,
    <<42802>>, <<42804>>, <<42806>>, <<42808>>, <<42810>>, <<42812>>,
    <<42814>>, <<42816>>, <<42818>>, <<42820>>, <<42822>>, <<42824>>,
    <<42826>>, <<42828>>, <<42830>>, <<42832>>, <<42834>>, <<42836>>,
    <<42838>>, <<42840>>, <<42842>>, <<42844>>, <<42846>>, <<42848>>,
    <<42850>>, <<42852>>, <<42854>>, <<42856>>, <<42858>>, <<42860>>,
    <<42862>>, <<42873>>, <<42875>>, <<42878>>, <<42880>>, <<42882>>,
    <<42884>>, <<42886>>, <<42891>>, <<42896>>, <<42898>>, <<42948>>,
    <<42902>>, <<42904>>, <<42906>>, <<42908>>, <<42910>>, <<42912>>,
    <<42914>>, <<42916>>, <<42918>>, <<42920>>, <<42932>>, <<42934>>,
    <<42936>>, <<42938>>, <<42940>>, <<42942>>, <<42944>>, <<42946>>,
    <<42951>>, <<42953>>, <<42960>>, <<42966>>, <<42968>>, <<42997>>,
    <<42931>>, <<5024>>, <<5025>>, <<5026>>, <<5027>>, <<5028>>, <<5029>>,
    <<5030>>, <<5031>>, <<5032>>, <<5033>>, <<5034>>, <<5035>>, <<5036>>,
    <<5037>>, <<5038>>, <<5039>>, <<5040>>, <<5041>>, <<5042>>, <<5043>>,
    <<5044>>, <<5045>>, <<5046>>, <<5047>>, <<5048>>, <<5049>>, <<5050>>,
    <<5051>>, <<5052>>, <<5053>>, <<5054>>, <<5055>>, <<5056>>, <<5057>>,
    <<5058>>, <<5059>>, <<5060>>, <<5061>>, <<5062>>, <<5063>>, <<5064>>,
    <<5065>>, <<5066>>, <<5067>>, <<5068>>, <<5069>>, <<5070>>, <<5071>>,
    <<5072>>, <<5073>>, <<5074>>, <<5075>>, <<5076>>, <<5077>>, <<5078>>,
    <<5079>>, <<5080>>, <<5081>>, <<5082>>, <<5083>>, <<5084>>, <<5085>>,
    <<5086>>, <<5087>>, <<5088>>, <<5089>>, <<5090>>, <<5091>>, <<5092>>,
    <<5093>>, <<5094>>, <<5095>>, <<5096>>, <<5097>>, <<5098>>, <<5099>>,
    <<5100>>, <<5101>>, <<5102>>, <<5103>>, <<70, 70>>, <<70, 73>>,
    <<70, 76>>, <<70, 70, 73>>, <<70, 70, 76>>, <<83, 84>>, <<83, 84>>,
    <<1348, 1350>>, <<1348, 1333>>, <<1348, 1339>>, <<1358, 1350>>,
    <<1348, 1341>>, <<65313>>, <<65314>>, <<65315>>, <<65316>>, <<65317>>,
    <<65318>>, <<65319>>, <<65320>>, <<65321>>, <<65322>>, <<65323>>,
    <<65324>>, <<65325>>, <<65326>>, <<65327>>, <<65328>>, <<65329>>,
    <<65330>>, <<65331>>, <<65332>>, <<65333>>, <<65334>>, <<65335>>,
    <<65336>>, <<65337>>, <<65338>>, <<66560>>, <<66561>>, <<66562>>,
    <<66563>>, <<66564>>, <<66565>>, <<66566>>, <<66567>>, <<66568>>,
    <<66569>>, <<66570>>, <<66571>>, <<66572>>, <<66573>>, <<66574>>,
    <<66575>>, <<66576>>, <<66577>>, <<66578>>, <<66579>>, <<66580>>,
    <<66581>>, <<66582>>, <<66583>>, <<66584>>, <<66585>>, <<66586>>,
    <<66587>>, <<66588>>, <<66589>>, <<66590>>, <<66591>>, <<66592>>,
    <<66593>>, <<66594>>, <<66595>>, <<66596>>, <<66597>>, <<66598>>,
    <<66599>>, <<66736>>, <<66737>>, <<66738>>, <<66739>>, <<66740>>,
    <<66741>>, <<66742>>, <<66743>>, <<66744>>, <<66745>>, <<66746>>,
    <<66747>>, <<66748>>, <<66749>>, <<66750>>, <<66751>>, <<66752>>,
    <<66753>>, <<66754>>, <<66755>>, <<66756>>, <<66757>>, <<66758>>,
    <<66759>>, <<66760>>, <<66761>>, <<66762>>, <<66763>>, <<66764>>,
    <<66765>>, <<66766>>, <<66767>>, <<66768>>, <<66769>>, <<66770>>,
    <<66771>>, <<66928>>, <<66929>>, <<66930>>, <<66931>>, <<66932>>,
    <<66933>>, <<66934>>, <<66935>>, <<66936>>, <<66937>>, <<66938>>,
    <<66940>>, <<66941>>, <<66942>>, <<66943>>, <<66944>>, <<66945>>,
    <<66946>>, <<66947>>, <<66948>>, <<66949>>, <<66950>>, <<66951>>,
    <<66952>>, <<66953>>, <<66954>>, <<66956>>, <<66957>>, <<66958>>,
    <<66959>>, <<66960>>, <<66961>>, <<66962>>, <<66964>>, <<66965>>,
    <<68736>>, <<68737>>, <<68738>>, <<68739>>, <<68740>>, <<68741>>,
    <<68742>>, <<68743>>, <<68744>>, <<68745>>, <<68746>>, <<68747>>,
    <<68748>>, <<68749>>, <<68750>>, <<68751>>, <<68752>>, <<68753>>,
    <<68754>>, <<68755>>, <<68756>>, <<68757>>, <<68758>>, <<68759>>,
    <<68760>>, <<68761>>, <<68762>>, <<68763>>, <<68764>>, <<68765>>,
    <<68766>>, <<68767>>, <<68768>>, <<68769>>, <<68770>>, <<68771>>,
    <<68772>>, <<68773>>, <<68774>>, <<68775>>, <<68776>>, <<68777>>,
    <<68778>>, <<68779>>, <<68780>>, <<68781>>, <<68782>>, <<68783>>,
    <<68784>>, <<68785>>, <<68786>>, <<71840>>, <<71841>>, <<71842>>,
    <<71843>>, <<71844>>, <<71845>>, <<71846>>, <<71847>>, <<71848>>,
    <<71849>>, <<71850>>, <<71851>>, <<71852>>, <<71853>>, <<71854>>,
    <<71855>>, <<71856>>, <<71857>>, <<71858>>, <<71859>>, <<71860>>,
    <<71861>>, <<71862>>, <<71863>>, <<71864>>, <<71865>>, <<71866>>,
    <<71867>>, <<71868>>, <<71869>>, <<71870>>, <<71871>>, <<93760>>,
    <<93761>>, <<93762>>, <<93763>>, <<93764>>, <<93765>>, <<93766>>,
    <<93767>>, <<93768>>, <<93769>>, <<93770>>, <<93771>>, <<93772>>,
    <<93773>>, <<93774>>, <<93775>>, <<93776>>, <<93777>>, <<93778>>,
    <<93779>>, <<93780>>, <<93781>>, <<93782>>, <<93783>>, <<93784>>,
    <<93785>>, <<93786>>, <<93787>>, <<93788>>, <<93789>>, <<93790>>,
    <<93791>>, <<125184>>, <<125185>>, <<125186>>, <<125187>>, <<125188>>,
    <<125189>>, <<125190>>, <<125191>>, <<125192>>, <<125193>>, <<125194>>,
    <<125195>>, <<125196>>, <<125197>>, <<125198>>, <<125199>>, <<125200>>,
    <<125201>>, <<125202>>, <<125203>>, <<125204>>, <<125205>>, <<125206>>,
    <<125207>>, <<125208>>, <<125209>>, <<125210>>, <<125211>>, <<125212>>,
    <<125213>>, <<125214>>, <<125215>>, <<125216>>, <<125217>>
  >>

LowerFrom ==
  <<
    65, 66, 67, 68, 69, 70, 71, 72, 73, 74, 75, 76, 77, 78, 79, 80, 81, 82,
    83, 84, 85, 86, 87, 88, 89, 90, 192, 193, 194, 195, 196, 197, 198, 199,
    200, 201, 202, 203, 204, 205, 206, 207, 208, 209, 210, 211, 212, 213, 214,
    216, 217, 218, 219, 220, 221, 222, 256, 258, 260, 262, 264, 266, 268, 270,
    272, 274, 276, 278, 280, 282, 284, 286, 288, 290, 292, 294, 296, 298, 300,
    302, 304, 306, 308, 310, 313, 315, 317, 319, 321, 323, 325, 327, 330, 332,
    334, 336, 338, 340, 342, 344, 346, 348, 350, 352, 354, 356, 358, 360, 362,
    364, 366, 368, 370, 372, 374, 376, 377, 379, 381, 385, 386, 388, 390, 391,
    393, 394, 395, 398, 399, 400, 401, 403, 404, 406, 407, 408, 412, 413, 415,
    416, 418, 420, 422, 423, 425, 428, 430, 431, 433, 434, 435, 437, 439, 440,
    444, 452, 453, 455, 456, 458, 459, 461, 463, 465, 467, 469, 471, 473, 475,
    478, 480, 482, 484, 486, 488, 490, 492, 494, 497, 498, 500, 502, 503, 504,
    506, 508, 510, 512, 514, 516, 518, 520, 522, 524, 526, 528, 530, 532, 534,
    536, 538, 540, 542, 544, 546, 548, 550, 552, 554, 556, 558, 560, 562, 570,
    571, 573, 574, 577, 579, 580, 581, 582, 584, 586, 588, 590, 880, 882, 886,
    895, 902, 904, 905, 906, 908, 910, 911, 913, 914, 915, 916, 917, 918, 919,
    920, 921, 922, 923, 924, 925, 926, 927, 928, 929, 931, 932, 933, 934, 935,
    936, 937, 938, 939, 975, 984, 986, 988, 990, 992, 994, 996, 998, 1000,
    1002, 1004, 1006, 1012, 1015, 1017, 1018, 1021, 1022, 1023, 1024, 1025,
    1026, 1027, 1028, 1029, 1030, 1031, 1032, 1033, 1034, 1035, 1036, 1037,
    1038, 1039, 1040, 1041, 1042, 1043, 1044, 1045, 1046, 1047, 1048, 1049,
    1050, 1051, 1052, 1053, 1054, 1055, 1056, 1057, 1058, 1059, 1060, 1061,
    1062, 1063, 1064, 1065, 1066, 1067, 1068, 1069, 1070, 1071, 1120, 1122,
    1124, 1126, 1128, 1130, 1132, 1134, 1136, 1138, 1140, 1142, 1144, 1146,
    1148, 1150, 1152, 1162, 1164, 1166, 1168, 1170, 1172, 1174, 1176, 1178,
    1180, 1182, 1184, 1186, 1188, 1190, 1192, 1194, 1196, 1198, 1200, 1202,
    1204, 1206, 1208, 1210, 1212, 1214, 1216, 1217, 1219, 1221, 1223, 1225,
    1227, 1229, 1232, 1234, 1236, 1238, 1240, 1242, 1244, 1246, 1248, 1250,
    1252, 1254, 1256, 1258, 1260, 1262, 1264, 1266, 1268, 1270, 1272, 1274,
    1276, 1278, 1280, 1282, 1284, 1286, 1288, 1290, 1292, 1294, 1296, 1298,
    1300, 1302, 1304, 1306, 1308, 1310, 1312, 1314, 1316, 1318, 1320, 1322,
    1324, 1326, 1329, 1330, 1331, 1332, 1333, 1334, 1335, 1336, 1337, 1338,
    1339, 1340, 1341, 1342, 1343, 1344, 1345, 1346, 1347, 1348, 1349, 1350,
    1351, 1352, 1353, 1354, 1355, 1356, 1357, 1358, 1359, 1360, 1361, 1362,
    1363, 1364, 1365, 1366, 4256, 4257, 4258, 4259, 4260, 4261, 4262, 4263,
    4264, 4265, 4266, 4267, 4268, 4269, 4270, 4271, 4272, 4273, 4274, 4275,
    4276, 4277, 4278, 4279, 4280, 4281, 4282, 4283, 4284, 4285, 4286, 4287,
    4288, 4289, 4290, 4291, 4292, 4293, 4295, 4301, 5024, 5025, 5026, 5027,
    5028, 5029, 5030, 5031, 5032, 5033, 5034, 5035, 5036, 5037, 5038, 5039,
    5040, 5041, 5042, 5043, 5044, 5045, 5046, 5047, 5048, 5049, 5050, 5051,
    5052, 5053, 5054, 5055, 5056, 5057, 5058, 5059, 5060, 5061, 5062, 5063,
    5064, 5065, 5066, 5067, 5068, 5069, 5070, 5071, 5072, 5073, 5074, 5075,
    5076, 5077, 5078, 5079, 5080, 5081, 5082, 5083, 5084, 5085, 5086, 5087,
    5088, 5089, 5090, 5091, 5092, 5093, 5094, 5095, 5096, 5097, 5098, 5099,
    5100, 5101, 5102, 5103, 5104, 5105, 5106, 5107, 5108, 5109, 7312, 7313,
    7314, 7315, 7316, 7317, 7318, 7319, 7320, 7321, 7322, 7323, 7324, 7325,
    7326, 7327, 7328, 7329, 7330, 7331, 7332, 7333, 7334, 7335, 7336, 7337,
    7338, 7339, 7340, 7341, 7342, 7343, 7344, 7345, 7346, 7347, 7348, 7349,
    7350, 7351, 7352, 7353, 7354, 7357, 7358, 7359, 7680, 7682, 7684, 7686,
    7688, 7690, 7692, 7694, 7696, 7698, 7700, 7702, 7704, 7706, 7708, 7710,
    7712, 7714, 7716, 7718, 7720, 7722, 7724, 7726, 7728, 7730, 7732, 7734,
    7736, 7738, 7740, 7742, 7744, 7746, 7748, 7750, 7752, 7754, 7756, 7758,
    7760, 7762, 7764, 7766, 7768, 7770, 7772, 7774, 7776, 7778, 7780, 7782,
    7784, 7786, 7788, 7790, 7792, 7794, 7796, 7798, 7800, 7802, 7804, 7806,
    7808, 7810, 7812, 7814, 7816, 7818, 7820, 7822, 7824, 7826, 7828, 7838,
    7840, 7842, 7844, 7846, 7848, 7850, 7852, 7854, 7856, 7858, 7860, 7862,
    7864, 7866, 7868, 7870, 7872, 7874, 7876, 7878, 7880, 7882, 7884, 7886,
    7888, 7890, 7892, 7894, 7896, 7898, 7900, 7902, 7904, 7906, 7908, 7910,
    7912, 7914, 7916, 7918, 7920, 7922, 7924, 7926, 7928, 7930, 7932, 7934,
    7944, 7945, 7946, 7947, 7948, 7949, 7950, 7951, 7960, 7961, 7962, 7963,
    7964, 7965, 7976, 7977, 7978, 7979, 7980, 7981, 7982, 7983, 7992, 7993,
    7994, 7995, 7996, 7997, 7998, 7999, 8008, 8009, 8010, 8011, 8012, 8013,
    8025, 8027, 8029, 8031, 8040, 8041, 8042, 8043, 8044, 8045, 8046, 8047,
    8072, 8073, 8074, 8075, 8076, 8077, 8078, 8079, 8088, 8089, 8090, 8091,
    8092, 8093, 8094, 8095, 8104, 8105, 8106, 8107, 8108, 8109, 8110, 8111,
    8120, 8121, 8122, 8123, 8124, 8136, 8137, 8138, 8139, 8140, 8152, 8153,
    8154, 8155, 8168, 8169, 8170, 8171, 8172, 8184, 8185, 8186, 8187, 8188,
    8486, 8490, 8491, 8498, 8544, 8545, 8546, 8547, 8548, 8549, 8550, 8551,
    8552, 8553, 8554, 8555, 8556, 8557, 8558, 8559, 8579, 9398, 9399, 9400,
    9401, 9402, 9403, 9404, 9405, 9406, 9407, 9408, 9409, 9410, 9411, 9412,
    9413, 9414, 9415, 9416, 9417, 9418, 9419, 9420, 9421, 9422, 9423, 11264,
    11265, 11266, 11267, 11268, 11269, 11270, 11271, 11272, 11273, 11274,
    11275, 11276, 11277, 11278, 11279, 11280, 11281, 11282, 11283, 11284,
    11285, 11286, 11287, 11288, 11289, 11290, 11291, 11292, 11293, 11294,
    11295, 11296, 11297, 11298, 11299, 11300, 11301, 11302, 11303, 11304,
    11305, 11306, 11307, 11308, 11309, 11310, 11311, 11360, 11362, 11363,
    11364, 11367, 11369, 11371, 11373, 11374, 11375, 11376, 11378, 11381,
    11390, 11391, 11392, 11394, 11396, 11398, 11400, 11402, 11404, 11406,
    11408, 11410, 11412, 11414, 11416, 11418, 11420, 11422, 11424, 11426,
    11428, 11430, 11432, 11434, 11436, 11438, 11440, 11442, 11444, 11446,
    11448, 11450, 11452, 11454, 11456, 11458, 11460, 11462, 11464, 11466,
    11468, 11470, 11472, 11474, 11476, 11478, 11480, 11482, 11484, 11486,
    11488, 11490, 11499, 11501, 11506, 42560, 42562, 42564, 42566, 42568,
    42570, 42572, 42574, 42576, 42578, 42580, 42582, 42584, 42586, 42588,
    42590, 42592, 42594, 42596, 42598, 42600, 42602, 42604, 42624, 42626,
    42628, 42630, 42632, 42634, 42636, 42638, 42640, 42642, 42644, 42646,
    42648, 42650, 42786, 42788, 42790, 42792, 42794, 42796, 42798, 42802,
    42804, 42806, 42808, 42810, 42812, 42814, 42816, 42818, 42820, 42822,
    42824, 42826, 42828, 42830, 42832, 42834, 42836, 42838, 42840, 42842,
    42844, 42846, 42848, 42850, 42852, 42854, 42856, 42858, 42860, 42862,
    42873, 42875, 42877, 42878, 42880, 42882, 42884, 42886, 42891, 42893,
    42896, 42898, 42902, 42904, 42906, 42908, 42910, 42912, 42914, 42916,
    42918, 42920, 42922, 42923, 42924, 42925, 42926, 42928, 42929, 42930,
    42931, 42932, 42934, 42936, 42938, 42940, 42942, 42944, 42946, 42948,
    42949, 42950, 42951, 42953, 42960, 42966, 42968, 42997, 65313, 65314,
    65315, 65316, 65317, 65318, 65319, 65320, 65321, 65322, 65323, 65324,
    65325, 65326, 65327, 65328, 65329, 65330, 65331, 65332, 65333, 65334,
    65335, 65336, 65337, 65338, 66560, 66561, 66562, 66563, 66564, 66565,
    66566, 66567, 66568, 66569, 66570, 66571, 66572, 66573, 66574, 66575,
    66576, 66577, 66578, 66579, 66580, 66581, 66582, 66583, 66584, 66585,
    66586, 66587, 66588, 66589, 66590, 66591, 66592, 66593, 66594, 66595,
    66596, 66597, 66598, 66599, 66736, 66737, 66738, 66739, 66740, 66741,
    66742, 66743, 66744, 66745, 66746, 66747, 66748, 66749, 66750, 66751,
    66752, 66753, 66754, 66755, 66756, 66757, 66758, 66759, 66760, 66761,
    66762, 66763, 66764, 66765, 66766, 66767, 66768, 66769, 66770, 66771,
    66928, 66929, 66930, 66931, 66932, 66933, 66934, 66935, 66936, 66937,
    66938, 66940, 66941, 66942, 66943, 66944, 66945, 66946, 66947, 66948,
    66949, 66950, 66951, 66952, 66953, 66954, 66956, 66957, 66958, 66959,
    66960, 66961, 66962, 66964, 66965, 68736, 68737, 68738, 68739, 68740,
    68741, 68742, 68743, 68744, 68745, 68746, 68747, 68748, 68749, 68750,
    68751, 68752, 68753, 68754, 68755, 68756, 68757, 68758, 68759, 68760,
    68761, 68762, 68763, 68764, 68765, 68766, 68767, 68768, 68769, 68770,
    68771, 68772, 68773, 68774, 68775, 68776, 68777, 68778, 68779, 68780,
    68781, 68782, 68783, 68784, 68785, 68786, 71840, 71841, 71842, 71843,
    71844, 71845, 71846, 71847, 71848, 71849, 71850, 71851, 71852, 71853,
    71854, 71855, 71856, 71857, 71858, 71859, 71860, 71861, 71862, 71863,
    71864, 71865, 71866, 71867, 71868, 71869, 71870, 71871, 93760, 93761,
    93762, 93763, 93764, 93765, 93766, 93767, 93768, 93769, 93770, 93771,
    93772, 93773, 93774, 93775, 93776, 93777, 93778, 93779, 93780, 93781,
    93782, 93783, 93784, 93785, 93786, 93787, 93788, 93789, 93790, 93791,
    125184, 125185, 125186, 125187, 125188, 125189, 125190, 125191, 125192,
    125193, 125194, 125195, 125196, 125197, 125198, 125199, 125200, 125201,
    125202, 125203, 125204, 125205, 125206, 125207, 125208, 125209, 125210,
    125211, 125212, 125213, 125214, 125215, 125216, 125217
  >>
LowerTo ==
  <<
    <<97>>, <<98>>, <<99>>, <<100>>, <<101>>, <<102>>, <<103>>, <<104>>,
    <<105>>, <<106>>, <<107>>, <<108>>, <<109>>, <<110>>, <<111>>, <<112>>,
    <<113>>, <<114>>, <<115>>, <<116>>, <<117>>, <<118>>, <<119>>, <<120>>,
    <<121>>, <<122>>, <<224>>, <<225>>, <<226>>, <<227>>, <<228>>, <<229>>,
    <<230>>, <<231>>, <<232>>, <<233>>, <<234>>, <<235>>, <<236>>, <<237>>,
    <<238>>, <<239>>, <<240>>, <<241>>, <<242>>, <<243>>, <<244>>, <<245>>,
    <<246>>, <<248>>, <<249>>, <<250>>, <<251>>, <<252>>, <<253>>, <<254>>,
    <<257>>, <<259>>, <<261>>, <<263>>, <<265>>, <<267>>, <<269>>, <<271>>,
    <<273>>, <<275>>, <<277>>, <<279>>, <<281>>, <<283>>, <<285>>, <<287>>,
    <<289>>, <<291>>, <<293>>, <<295>>, <<297>>, <<299>>, <<301>>, <<303>>,
    <<105, 775>>, <<307>>, <<309>>, <<311>>, <<314>>, <<316>>, <<318>>,
    <<320>>, <<322>>, <<324>>, <<326>>, <<328>>, <<331>>, <<333>>, <<335>>,
    <<337>>, <<339>>, <<341>>, <<343>>, <<345>>, <<347>>, <<349>>, <<351>>,
    <<353>>, <<355>>, <<357>>, <<359>>, <<361>>, <<363>>, <<365>>, <<367>>,
    <<369>>, <<371>>, <<373>>, <<375>>, <<255>>, <<378>>, <<380>>, <<382>>,
    <<595>>, <<387>>, <<389>>, <<596>>, <<392>>, <<598>>, <<599>>, <<396>>,
    <<477>>, <<601>>, <<603>>, <<402>>, <<608>>, <<611>>, <<617>>, <<616>>,
    <<409>>, <<623>>, <<626>>, <<629>>, <<417>>, <<419>>, <<421>>, <<640>>,
    <<424>>, <<643>>, <<429>>, <<648>>, <<432>>, <<650>>, <<651>>, <<436>>,
    <<438>>, <<658>>, <<441>>, <<445>>, <<454>>, <<454>>, <<457>>, <<457>>,
    <<460>>, <<460>>, <<462>>, <<464>>, <<466>>, <<468>>, <<470>>, <<472>>,
    <<474>>, <<476>>, <<479>>, <<481>>, <<483>>, <<485>>, <<487>>, <<489>>,
    <<491>>, <<493>>, <<495>>, <<499>>, <<499>>, <<501>>, <<405>>, <<447>>,
    <<505>>, <<507>>, <<509>>, <<511>>, <<513>>, <<515>>, <<517>>, <<519>>,
    <<521>>, <<523>>, <<525>>, <<527>>, <<529>>, <<531>>, <<533>>, <<535>>,
    <<537>>, <<539>>, <<541>>, <<543>>, <<414>>, <<547>>, <<549>>, <<551>>,
    <<553>>, <<555>>, <<557>>, <<559>>, <<561>>, <<563>>, <<11365>>, <<572>>,
    <<410>>, <<11366>>, <<578>>, <<384>>, <<649>>, <<652>>, <<583>>, <<585>>,
    <<587>>, <<589>>, <<591>>, <<881>>, <<883>>, <<887>>, <<1011>>, <<940>>,
    <<941>>, <<942>>, <<943>>, <<972>>, <<973>>, <<974>>, <<945>>, <<946>>,
    <<947>>, <<948>>, <<949>>, <<950>>, <<951>>, <<952>>, <<953>>, <<954>>,
    <<955>>, <<956>>, <<957>>, <<958>>, <<959>>, <<960>>, <<961>>, <<963>>,
    <<964>>, <<965>>, <<966>>, <<967>>, <<968>>, <<969>>, <<970>>, <<971>>,
    <<983>>, <<985>>, <<987>>, <<989>>, <<991>>, <<993>>, <<995>>, <<997>>,
    <<999>>, <<1001>>, <<1003>>, <<1005>>, <<1007>>, <<952>>, <<1016>>,
    <<1010>>, <<1019>>, <<891>>, <<892>>, <<893>>, <<1104>>, <<1105>>,
    <<1106>>, <<1107>>, <<1108>>, <<1109>>, <<1110>>, <<1111>>, <<1112>>,
    <<1113>>, <<1114>>, <<1115>>, <<1116>>, <<1117>>, <<1118>>, <<1119>>,
    <<1072>>, <<1073>>, <<1074>>, <<1075>>, <<1076>>, <<1077>>, <<1078>>,
    <<1079>>, <<1080>>, <<1081>>, <<1082>>, <<1083>>, <<1084>>, <<1085>>,
    <<1086>>, <<1087>>, <<1088>>, <<1089>>, <<1090>>, <<1091>>, <<1092>>,
    <<1093>>, <<1094>>, <<1095>>, <<1096>>, <<1097>>, <<1098>>, <<1099>>,
    <<1100>>, <<1101>>, <<1102>>, <<1103>>, <<1121>>, <<1123>>, <<1125>>,
    <<1127>>, <<1129>>, <<1131>>, <<1133>>, <<1135>>, <<1137>>, <<1139>>,
    <<1141>>, <<1143>>, <<1145>>, <<1147>>, <<1149>>, <<1151>>, <<1153>>,
    <<1163>>, <<1165>>, <<1167>>, <<1169>>, <<1171>>, <<1173>>, <<1175>>,
    <<1177>>, <<1179>>, <<1181>>, <<1183>>, <<1185>>, <<1187>>, <<1189>>,
    <<1191>>, <<1193>>, <<1195>>, <<1197>>, <<1199>>, <<1201>>, <<1203>>,
    <<1205>>, <<1207>>, <<1209>>, <<1211>>, <<1213>>, <<1215>>, <<1231>>,
    <<1218>>, <<1220>>, <<1222>>, <<1224>>, <<1226>>, <<1228>>, <<1230>>,
    <<1233>>, <<1235>>, <<1237>>, <<1239>>, <<1241>>, <<1243>>, <<1245>>,
    <<1247>>, <<1249>>, <<1251>>, <<1253>>, <<1255>>, <<1257>>, <<1259>>,
    <<1261>>, <<1263>>, <<1265>>, <<1267>>, <<1269>>, <<1271>>, <<1273>>,
    <<1275>>, <<1277>>, <<1279>>, <<1281>>, <<1283>>, <<1285>>, <<1287>>,
    <<1289>>, <<1291>>, <<1293>>, <<1295>>, <<1297>>, <<1299>>, <<1301>>,
    <<1303>>, <<1305>>, <<1307>>, <<1309>>, <<1311>>, <<1313>>, <<1315>>,
    <<1317>>, <<1319>>, <<1321>>, <<1323>>, <<1325>>, <<1327>>, <<1377>>,
    <<1378>>, <<1379>>, <<1380>>, <<1381>>, <<1382>>, <<1383>>, <<1384>>,
    <<1385>>, <<1386>>, <<1387>>, <<1388>>, <<1389>>, <<1390>>, <<1391>>,
    <<1392>>, <<1393>>, <<1394>>, <<1395>>, <<1396>>, <<1397>>, <<1398>>,
    <<1399>>, <<1400>>, <<1401>>, <<1402>>, <<1403>>, <<1404>>, <<1405>>,
    <<1406>>, <<1407>>, <<1408>>, <<1409>>, <<1410>>, <<1411>>, <<1412>>,
    <<1413>>, <<1414>>, <<11520>>, <<11521>>, <<11522>>, <<11523>>, <<11524>>,
    <<11525>>, <<11526>>, <<11527>>, <<11528>>, <<11529>>, <<11530>>,
    <<11531>>, <<11532>>, <<11533>>, <<11534>>, <<11535>>, <<11536>>,
    <<11537>>, <<11538>>, <<11539>>, <<11540>>, <<11541>>, <<11542>>,
    <<11543>>, <<11544>>, <<11545>>, <<11546>>, <<11547>>, <<11548>>,
    <<11549>>, <<11550>>, <<11551>>, <<11552>>, <<11553>>, <<11554>>,
    <<11555>>, <<11556>>, <<11557>>, <<11559>>, <<11565>>, <<43888>>,
    <<43889>>, <<43890>>, <<43891>>, <<43892>>, <<43893>>, <<43894>>,
    <<43895>>, <<43896>>, <<43897>>, <<43898>>, <<43899>>, <<43900>>,
    <<43901>>, <<43902>>, <<43903>>, <<43904>>, <<43905>>, <<43906>>,
    <<43907>>, <<43908>>, <<43909>>, <<43910>>, <<43911>>, <<43912>>,
    <<43913>>, <<43914>>, <<43915>>, <<43916>>, <<43917>>, <<43918>>,
    <<43919>>, <<43920>>, <<43921>>, <<43922>>, <<43923>>, <<43924>>,
    <<43925>>, <<43926>>, <<43927>>, <<43928>>, <<43929>>, <<43930>>,
    <<43931>>, <<43932>>, <<43933>>, <<43934>>, <<43935>>, <<43936>>,
    <<43937>>, <<43938>>, <<43939>>, <<43940>>, <<43941>>, <<43942>>,
    <<43943>>, <<43944>>, <<43945>>, <<43946>>, <<43947>>, <<43948>>,
    <<43949>>, <<43950>>, <<43951>>, <<43952>>, <<43953>>, <<43954>>,
    <<43955>>, <<43956>>, <<43957>>, <<43958>>, <<43959>>, <<43960>>,
    <<43961>>, <<43962>>, <<43963>>, <<43964>>, <<43965>>, <<43966>>,
    <<43967>>, <<5112>>, <<5113>>, <<5114>>, <<5115>>, <<5116>>, <<5117>>,
    <<4304>>, <<4305>>, <<4306>>, <<4307>>, <<4308>>, <<4309>>, <<4310>>,
    <<4311>>, <<4312>>, <<4313>>, <<4314>>, <<4315>>, <<4316>>, <<4317>>,
    <<4318>>, <<4319>>, <<4320>>, <<4321>>, <<4322>>, <<4323>>, <<4324>>,
    <<4325>>, <<4326>>, <<4327>>, <<4328>>, <<4329>>, <<4330>>, <<4331>>,
    <<4332>>, <<4333>>, <<4334>>, <<4335>>, <<4336>>, <<4337>>, <<4338>>,
    <<4339>>, <<4340>>, <<4341>>, <<4342>>, <<4343>>, <<4344>>, <<4345>>,
    <<4346>>, <<4349>>, <<4350>>, <<4351>>, <<7681>>, <<7683>>, <<7685>>,
    <<7687>>, <<7689>>, <<7691>>, <<7693>>, <<7695>>, <<7697>>, <<7699>>,
    <<7701>>, <<7703>>, <<7705>>, <<7707>>, <<7709>>, <<7711>>, <<7713>>,
    <<7715>>, <<7717>>, <<7719>>, <<7721>>, <<7723>>, <<7725>>, <<7727>>,
    <<7729>>, <<7731>>, <<7733>>, <<7735>>, <<7737>>, <<7739>>, <<7741>>,
    <<7743>>, <<7745>>, <<7747>>, <<7749>>, <<7751>>, <<7753>>, <<7755>>,
    <<7757>>, <<7759>>, <<7761>>, <<7763>>, <<7765>>, <<7767>>, <<7769>>,
    <<7771>>, <<7773>>, <<7775>>, <<7777>>, <<7779>>, <<7781>>, <<7783>>,
    <<7785>>, <<7787>>, <<7789>>, <<7791>>, <<7793>>, <<7795>>, <<7797>>,
    <<7799>>, <<7801>>, <<7803>>, <<7805>>, <<7807>>, <<7809>>, <<7811>>,
    <<7813>>, <<7815>>, <<7817>>, <<7819>>, <<7821>>, <<7823>>, <<7825>>,
    <<7827>>, <<7829>>, <<223>>, <<7841>>, <<7843>>, <<7845>>, <<7847>>,
    <<7849>>, <<7851>>, <<7853>>, <<7855>>, <<7857>>, <<7859>>, <<7861>>,
    <<7863>>, <<7865>>, <<7867>>, <<7869>>, <<7871>>, <<7873>>, <<7875>>,
    <<7877>>, <<7879>>, <<7881>>, <<7883>>, <<7885>>, <<7887>>, <<7889>>,
    <<7891>>, <<7893>>, <<7895>>, <<7897>>, <<7899>>, <<7901>>, <<7903>>,
    <<7905>>, <<7907>>, <<7909>>, <<7911>>, <<7913>>, <<7915>>, <<7917>>,
    <<7919>>, <<7921>>, <<7923>>, <<7925>>, <<7927>>, <<7929>>, <<7931>>,
    <<7933>>, <<7935>>, <<7936>>, <<7937>>, <<7938>>, <<7939>>, <<7940>>,
    <<7941>>, <<7942>>, <<7943>>, <<7952>>, <<7953>>, <<7954>>, <<7955>>,
    <<7956>>, <<7957>>, <<7968>>, <<7969>>, <<7970>>, <<7971>>, <<7972>>,
    <<7973>>, <<7974>>, <<7975>>, <<7984>>, <<7985>>, <<7986>>, <<7987>>,
    <<7988>>, <<7989>>, <<7990>>, <<7991>>, <<8000>>, <<8001>>, <<8002>>,
    <<8003>>, <<8004>>, <<8005>>, <<8017>>, <<8019>>, <<8021>>, <<8023>>,
    <<8032>>, <<8033>>, <<8034>>, <<8035>>, <<8036>>, <<8037>>, <<8038>>,
    <<8039>>, <<8064>>, <<8065>>, <<8066>>, <<8067>>, <<8068>>, <<8069>>,
    <<8070>>, <<8071>>, <<8080>>, <<8081>>, <<8082>>, <<8083>>, <<8084>>,
    <<8085>>, <<8086>>, <<8087>>, <<8096>>, <<8097>>, <<8098>>, <<8099>>,
    <<8100>>, <<8101>>, <<8102>>, <<8103>>, <<8112>>, <<8113>>, <<8048>>,
    <<8049>>, <<8115>>, <<8050>>, <<8051>>, <<8052>>, <<8053>>, <<8131>>,
    <<8144>>, <<8145>>, <<8054>>, <<8055>>, <<8160>>, <<8161>>, <<8058>>,
    <<8059>>, <<8165>>, <<8056>>, <<8057>>, <<8060>>, <<8061>>, <<8179>>,
    <<969>>, <<107>>, <<229>>, <<8526>>, <<8560>>, <<8561>>, <<8562>>,
    <<8563>>, <<8564>>, <<8565>>, <<8566>>, <<8567>>, <<8568>>, <<8569>>,
    <<8570>>, <<8571>>, <<8572>>, <<8573>>, <<8574>>, <<8575>>, <<8580>>,
    <<9424>>, <<9425>>, <<9426>>, <<9427>>, <<9428>>, <<9429>>, <<9430>>,
    <<9431>>, <<9432>>, <<9433>>, <<9434>>, <<9435>>, <<9436>>, <<9437>>,
    <<9438>>, <<9439>>, <<9440>>, <<9441>>, <<9442>>, <<9443>>, <<9444>>,
    <<9445>>, <<9446>>, <<9447>>, <<9448>>, <<9449>>, <<11312>>, <<11313>>,
    <<11314>>, <<11315>>, <<11316>>, <<11317>>, <<11318>>, <<11319>>,
    <<11320>>, <<11321>>, <<11322>>, <<11323>>, <<11324>>, <<11325>>,
    <<11326>>, <<11327>>, <<11328>>, <<11329>>, <<11330>>, <<11331>>,
    <<11332>>, <<11333>>, <<11334>>, <<11335>>, <<11336>>, <<11337>>,
    <<11338>>, <<11339>>, <<11340>>, <<11341>>, <<11342>>, <<11343>>,
    <<11344>>, <<11345>>, <<11346>>, <<11347>>, <<11348>>, <<11349>>,
    <<11350>>, <<11351>>, <<11352>>, <<11353>>, <<11354>>, <<11355>>,
    <<11356>>, <<11357>>, <<11358>>, <<11359>>, <<11361>>, <<619>>, <<7549>>,
    <<637>>, <<11368>>, <<11370>>, <<11372>>, <<593>>, <<625>>, <<592>>,
    <<594>>, <<11379>>, <<11382>>, <<575>>, <<576>>, <<11393>>, <<11395>>,
    <<11397>>, <<11399>>, <<11401>>, <<11403>>, <<11405>>, <<11407>>,
    <<11409>>, <<11411>>, <<11413>>, <<11415>>, <<11417>>, <<11419>>,
    <<11421>>, <<11423>>, <<11425>>, <<11427>>, <<11429>>, <<11431>>,
    <<11433>>, <<11435>>, <<11437>>, <<11439>>, <<11441>>, <<11443>>,
    <<11445>>, <<11447>>, <<11449>>, <<11451>>, <<11453>>, <<11455>>,
    <<11457>>, <<11459>>, <<11461>>, <<11463>>, <<11465>>, <<11467>>,
    <<11469>>, <<11471>>, <<11473>>, <<11475>>, <<11477>>, <<11479>>,
    <<11481>>, <<11483>>, <<11485>>, <<11487>>, <<11489>>, <<11491>>,
    <<11500>>, <<11502>>, <<11507>>, <<42561>>, <<42563>>, <<42565>>,
    <<42567>>, <<42569>>, <<42571>>, <<42573>>, <<42575>>, <<42577>>,
    <<42579>>, <<42581>>, <<42583>>, <<42585>>, <<42587>>, <<42589>>,
    <<42591>>, <<42593>>, <<42595>>, <<42597>>, <<42599>>, <<42601>>,
    <<42603>>, <<42605>>, <<42625>>, <<42627>>, <<42629>>, <<42631>>,
    <<42633>>, <<42635>>, <<42637>>, <<42639>>, <<42641>>, <<42643>>,
    <<42645>>, <<42647>>, <<42649>>, <<42651>>, <<42787>>, <<42789>>,
    <<42791>>, <<42793>>, <<42795>>, <<42797>>, <<42799>>, <<42803>>,
    <<42805>>, <<42807>>, <<42809>>, <<42811>>, <<42813>>, <<42815>>,
    <<42817>>, <<42819>>, <<42821>>, <<42823>>, <<42825>>, <<42827>>,
    <<42829>>, <<42831>>, <<42833>>, <<42835>>, <<42837>>, <<42839>>,
    <<42841>>, <<42843>>, <<42845>>, <<42847>>, <<42849>>, <<42851>>,
    <<42853>>, <<42855>>, <<42857>>, <<42859>>, <<42861>>, <<42863>>,
    <<42874>>, <<42876>>, <<7545>>, <<42879>>, <<42881>>, <<42883>>,
    <<42885>>, <<42887>>, <<42892>>, <<613>>, <<42897>>, <<42899>>, <<42903>>,
    <<42905>>, <<42907>>, <<42909>>, <<42911>>, <<42913>>, <<42915>>,
    <<42917>>, <<42919>>, <<42921>>, <<614>>, <<604>>, <<609>>, <<620>>,
    <<618>>, <<670>>, <<647>>, <<669>>, <<43859>>, <<42933>>, <<42935>>,
    <<42937>>, <<42939>>, <<42941>>, <<42943>>, <<42945>>, <<42947>>,
    <<42900>>, <<642>>, <<7566>>, <<42952>>, <<42954>>, <<42961>>, <<42967>>,
    <<42969>>, <<42998>>, <<65345>>, <<65346>>, <<65347>>, <<65348>>,
    <<65349>>, <<65350>>, <<65351>>, <<65352>>, <<65353>>, <<65354>>,
    <<65355>>, <<65356>>, <<65357>>, <<65358>>, <<65359>>, <<65360>>,
    <<65361>>, <<65362>>, <<65363>>, <<65364>>, <<65365>>, <<65366>>,
    <<65367>>, <<65368>>, <<65369>>, <<65370>>, <<66600>>, <<66601>>,
    <<66602>>, <<66603>>, <<66604>>, <<66605>>, <<66606>>, <<66607>>,
    <<66608>>, <<66609>>, <<66610>>, <<66611>>, <<66612>>, <<66613>>,
    <<66614>>, <<66615>>, <<66616>>, <<66617>>, <<66618>>, <<66619>>,
    <<66620>>, <<66621>>, <<66622>>, <<66623>>, <<66624>>, <<66625>>,
    <<66626>>, <<66627>>, <<66628>>, <<66629>>, <<66630>>, <<66631>>,
    <<66632>>, <<66633>>, <<66634>>, <<66635>>, <<66636>>, <<66637>>,
    <<66638>>, <<66639>>, <<66776>>, <<66777>>, <<66778>>, <<66779>>,
    <<66780>>, <<66781>>, <<66782>>, <<66783>>, <<66784>>, <<66785>>,
    <<66786>>, <<66787>>, <<66788>>, <<66789>>, <<66790>>, <<66791>>,
    <<66792>>, <<66793>>, <<66794>>, <<66795>>, <<66796>>, <<66797>>,
    <<66798>>, <<66799>>, <<66800>>, <<66801>>, <<66802>>, <<66803>>,
    <<66804>>, <<66805>>, <<66806>>, <<66807>>, <<66808>>, <<66809>>,
    <<66810>>, <<66811>>, <<66967>>, <<66968>>, <<66969>>, <<66970>>,
    <<66971>>, <<66972>>, <<66973>>, <<66974>>, <<66975>>, <<66976>>,
    <<66977>>, <<66979>>, <<66980>>, <<66981>>, <<66982>>, <<66983>>,
    <<66984>>, <<66985>>, <<66986>>, <<66987>>, <<66988>>, <<66989>>,
    <<66990>>, <<66991>>, <<66992>>, <<66993>>, <<66995>>, <<66996>>,
    <<66997>>, <<66998>>, <<66999>>, <<67000>>, <<67001>>, <<67003>>,
    <<67004>>, <<68800>>, <<68801>>, <<68802>>, <<68803>>, <<68804>>,
    <<68805>>, <<68806>>, <<68807>>, <<68808>>, <<68809>>, <<68810>>,
    <<68811>>, <<68812>>, <<68813>>, <<68814>>, <<68815>>, <<68816>>,
    <<68817>>, <<68818>>, <<68819>>, <<68820>>, <<68821>>, <<68822>>,
    <<68823>>, <<68824>>, <<68825>>, <<68826>>, <<68827>>, <<68828>>,
    <<68829>>, <<68830>>, <<68831>>, <<68832>>, <<68833>>, <<68834>>,
    <<68835>>, <<68836>>, <<68837>>, <<68838>>, <<68839>>, <<68840>>,
    <<68841>>, <<68842>>, <<68843>>, <<68844>>, <<68845>>, <<68846>>,
    <<68847>>, <<68848>>, <<68849>>, <<68850>>, <<71872>>, <<71873>>,
    <<71874>>, <<71875>>, <<71876>>, <<71877>>, <<71878>>, <<71879>>,
    <<71880>>, <<71881>>, <<71882>>, <<71883>>, <<71884>>, <<71885>>,
    <<71886>>, <<71887>>, <<71888>>, <<71889>>, <<71890>>, <<71891>>,
    <<71892>>, <<71893>>, <<71894>>, <<71895>>, <<71896>>, <<71897>>,
    <<71898>>, <<71899>>, <<71900>>, <<71901>>, <<71902>>, <<71903>>,
    <<93792>>, <<93793>>, <<93794>>, <<93795>>, <<93796>>, <<93797>>,
    <<93798>>, <<93799>>, <<93800>>, <<93801>>, <<93802>>, <<93803>>,
    <<93804>>, <<93805>>, <<93806>>, <<93807>>, <<93808>>, <<93809>>,
    <<93810>>, <<93811>>, <<93812>>, <<93813>>, <<93814>>, <<93815>>,
    <<93816>>, <<93817>>, <<93818>>, <<93819>>, <<93820>>, <<93821>>,
    <<93822>>, <<93823>>, <<125218>>, <<125219>>, <<125220>>, <<125221>>,
    <<125222>>, <<125223>>, <<125224>>, <<125225>>, <<125226>>, <<125227>>,
    <<125228>>, <<125229>>, <<125230>>, <<125231>>, <<125232>>, <<125233>>,
    <<125234>>, <<125235>>, <<125236>>, <<125237>>, <<125238>>, <<125239>>,
    <<125240>>, <<125241>>, <<125242>>, <<125243>>, <<125244>>, <<125245>>,
    <<125246>>, <<125247>>, <<125248>>, <<125249>>, <<125250>>, <<125251>>
  >>

UpperDomain == {UpperFrom[i] : i \in 1..Len(UpperFrom)}
LowerDomain == {LowerFrom[i] : i \in 1..Len(LowerFrom)}

\* str.upper() of the one-character string <<c>>
UpperChar(c) ==
  IF c \notin UpperDomain THEN <<c>>
  ELSE UpperTo[CHOOSE i \in 1..Len(UpperFrom) : UpperFrom[i] = c]

\* str.lower() of the one-character string <<c>>
LowerChar(c) ==
  IF c \notin LowerDomain THEN <<c>>
  ELSE LowerTo[CHOOSE i \in 1..Len(LowerFrom) : LowerFrom[i] = c]

\* c lies in one of the closed intervals of r
InRanges(c, r) == \E i \in 1..Len(r) : r[i][1] <= c /\ c <= r[i][2]

\* the code points with the Case_Ignorable property, as closed intervals
CaseIgnorableRanges ==
  <<
    <<39, 39>>, <<46, 46>>, <<58, 58>>, <<94, 94>>, <<96, 96>>, <<168, 168>>,
    <<173, 173>>, <<175, 175>>, <<180, 180>>, <<183, 184>>, <<688, 879>>,
    <<884, 885>>, <<890, 890>>, <<900, 901>>, <<903, 903>>, <<1155, 1161>>,
    <<1369, 1369>>, <<1375, 1375>>, <<1425, 1469>>, <<1471, 1471>>,
    <<1473, 1474>>, <<1476, 1477>>, <<1479, 1479>>, <<1524, 1524>>,
    <<1536, 1541>>, <<1552, 1562>>, <<1564, 1564>>, <<1600, 1600>>,
    <<1611, 1631>>, <<1648, 1648>>, <<1750, 1757>>, <<1759, 1768>>,
    <<1770, 1773>>, <<1807, 1807>>, <<1809, 1809>>, <<1840, 1866>>,
    <<1958, 1968>>, <<2027, 2037>>, <<2042, 2042>>, <<2045, 2045>>,
    <<2070, 2093>>, <<2137, 2139>>, <<2184, 2184>>, <<2192, 2193>>,
    <<2200, 2207>>, <<2249, 2306>>, <<2362, 2362>>, <<2364, 2364>>,
    <<2369, 2376>>, <<2381, 2381>>, <<2385, 2391>>, <<2402, 2403>>,
    <<2417, 2417>>, <<2433, 2433>>, <<2492, 2492>>, <<2497, 2500>>,
    <<2509, 2509>>, <<2530, 2531>>, <<2558, 2558>>, <<2561, 2562>>,
    <<2620, 2620>>, <<2625, 2626>>, <<2631, 2632>>, <<2635, 2637>>,
    <<2641, 2641>>, <<2672, 2673>>, <<2677, 2677>>, <<2689, 2690>>,
    <<2748, 2748>>, <<2753, 2757>>, <<2759, 2760>>, <<2765, 2765>>,
    <<2786, 2787>>, <<2810, 2815>>, <<2817, 2817>>, <<2876, 2876>>,
    <<2879, 2879>>, <<2881, 2884>>, <<2893, 2893>>, <<2901, 2902>>,
    <<2914, 2915>>, <<2946, 2946>>, <<3008, 3008>>, <<3021, 3021>>,
    <<3072, 3072>>, <<3076, 3076>>, <<3132, 3132>>, <<3134, 3136>>,
    <<3142, 3144>>, <<3146, 3149>>, <<3157, 3158>>, <<3170, 3171>>,
    <<3201, 3201>>, <<3260, 3260>>, <<3263, 3263>>, <<3270, 3270>>,
    <<3276, 3277>>, <<3298, 3299>>, <<3328, 3329>>, <<3387, 3388>>,
    <<3393, 3396>>, <<3405, 3405>>, <<3426, 3427>>, <<3457, 3457>>,
    <<3530, 3530>>, <<3538, 3540>>, <<3542, 3542>>, <<3633, 3633>>,
    <<3636, 3642>>, <<3654, 3662>>, <<3761, 3761>>, <<3764, 3772>>,
    <<3782, 3782>>, <<3784, 3789>>, <<3864, 3865>>, <<3893, 3893>>,
    <<3895, 3895>>, <<3897, 3897>>, <<3953, 3966>>, <<3968, 3972>>,
    <<3974, 3975>>, <<3981, 3991>>, <<3993, 4028>>, <<4038, 4038>>,
    <<4141, 4144>>, <<4146, 4151>>, <<4153, 4154>>, <<4157, 4158>>,
    <<4184, 4185>>, <<4190, 4192>>, <<4209, 4212>>, <<4226, 4226>>,
    <<4229, 4230>>, <<4237, 4237>>, <<4253, 4253>>, <<4348, 4348>>,
    <<4957, 4959>>, <<5906, 5908>>, <<5938, 5939>>, <<5970, 5971>>,
    <<6002, 6003>>, <<6068, 6069>>, <<6071, 6077>>, <<6086, 6086>>,
    <<6089, 6099>>, <<6103, 6103>>, <<6109, 6109>>, <<6155, 6159>>,
    <<6211, 6211>>, <<6277, 6278>>, <<6313, 6313>>, <<6432, 6434>>,
    <<6439, 6440>>, <<6450, 6450>>, <<6457, 6459>>, <<6679, 6680>>,
    <<6683, 6683>>, <<6742, 6742>>, <<6744, 6750>>, <<6752, 6752>>,
    <<6754, 6754>>, <<6757, 6764>>, <<6771, 6780>>, <<6783, 6783>>,
    <<6823, 6823>>, <<6832, 6862>>, <<6912, 6915>>, <<6964, 6964>>,
    <<6966, 6970>>, <<6972, 6972>>, <<6978, 6978>>, <<7019, 7027>>,
    <<7040, 7041>>, <<7074, 7077>>, <<7080, 7081>>, <<7083, 7085>>,
    <<7142, 7142>>, <<7144, 7145>>, <<7149, 7149>>, <<7151, 7153>>,
    <<7212, 7219>>, <<7222, 7223>>, <<7288, 7293>>, <<7376, 7378>>,
    <<7380, 7392>>, <<7394, 7400>>, <<7405, 7405>>, <<7412, 7412>>,
    <<7416, 7417>>, <<7468, 7530>>, <<7544, 7544>>, <<7579, 7679>>,
    <<8125, 8125>>, <<8127, 8129>>, <<8141, 8143>>, <<8157, 8159>>,
    <<8173, 8175>>, <<8189, 8190>>, <<8203, 8207>>, <<8216, 8217>>,
    <<8228, 8228>>, <<8231, 8231>>, <<8234, 8238>>, <<8288, 8292>>,
    <<8294, 8303>>, <<8305, 8305>>, <<8319, 8319>>, <<8336, 8348>>,
    <<8400, 8432>>, <<11388, 11389>>, <<11503, 11505>>, <<11631, 11631>>,
    <<11647, 11647>>, <<11744, 11775>>, <<11823, 11823>>, <<12293, 12293>>,
    <<12330, 12333>>, <<12337, 12341>>, <<12347, 12347>>, <<12441, 12446>>,
    <<12540, 12542>>, <<40981, 40981>>, <<42232, 42237>>, <<42508, 42508>>,
    <<42607, 42610>>, <<42612, 42621>>, <<42623, 42623>>, <<42652, 42655>>,
    <<42736, 42737>>, <<42752, 42785>>, <<42864, 42864>>, <<42888, 42890>>,
    <<42994, 42996>>, <<43000, 43001>>, <<43010, 43010>>, <<43014, 43014>>,
    <<43019, 43019>>, <<43045, 43046>>, <<43052, 43052>>, <<43204, 43205>>,
    <<43232, 43249>>, <<43263, 43263>>, <<43302, 43309>>, <<43335, 43345>>,
    <<43392, 43394>>, <<43443, 43443>>, <<43446, 43449>>, <<43452, 43453>>,
    <<43471, 43471>>, <<43493, 43494>>, <<43561, 43566>>, <<43569, 43570>>,
    <<43573, 43574>>, <<43587, 43587>>, <<43596, 43596>>, <<43632, 43632>>,
    <<43644, 43644>>, <<43696, 43696>>, <<43698, 43700>>, <<43703, 43704>>,
    <<43710, 43711>>, <<43713, 43713>>, <<43741, 43741>>, <<43756, 43757>>,
    <<43763, 43764>>, <<43766, 43766>>, <<43867, 43871>>, <<43881, 43883>>,
    <<44005, 44005>>, <<44008, 44008>>, <<44013, 44013>>, <<64286, 64286>>,
    <<64434, 64450>>, <<65024, 65039>>, <<65043, 65043>>, <<65056, 65071>>,
    <<65106, 65106>>, <<65109, 65109>>, <<65279, 65279>>, <<65287, 65287>>,
    <<65294, 65294>>, <<65306, 65306>>, <<65342, 65342>>, <<65344, 65344>>,
    <<65392, 65392>>, <<65438, 65439>>, <<65507, 65507>>, <<65529, 65531>>,
    <<66045, 66045>>, <<66272, 66272>>, <<66422, 66426>>, <<67456, 67461>>,
    <<67463, 67504>>, <<67506, 67514>>, <<68097, 68099>>, <<68101, 68102>>,
    <<68108, 68111>>, <<68152, 68154>>, <<68159, 68159>>, <<68325, 68326>>,
    <<68900, 68903>>, <<69291, 69292>>, <<69446, 69456>>, <<69506, 69509>>,
    <<69633, 69633>>, <<69688, 69702>>, <<69744, 69744>>, <<69747, 69748>>,
    <<69759, 69761>>, <<69811, 69814>>, <<69817, 69818>>, <<69821, 69821>>,
    <<69826, 69826>>, <<69837, 69837>>, <<69888, 69890>>, <<69927, 69931>>,
    <<69933, 69940>>, <<70003, 70003>>, <<70016, 70017>>, <<70070, 70078>>,
    <<70089, 70092>>, <<70095, 70095>>, <<70191, 70193>>, <<70196, 70196>>,
    <<70198, 70199>>, <<70206, 70206>>, <<70367, 70367>>, <<70371, 70378>>,
    <<70400, 70401>>, <<70459, 70460>>, <<70464, 70464>>, <<70502, 70508>>,
    <<70512, 70516>>, <<70712, 70719>>, <<70722, 70724>>, <<70726, 70726>>,
    <<70750, 70750>>, <<70835, 70840>>, <<70842, 70842>>, <<70847, 70848>>,
    <<70850, 70851>>, <<71090, 71093>>, <<71100, 71101>>, <<71103, 71104>>,
    <<71132, 71133>>, <<71219, 71226>>, <<71229, 71229>>, <<71231, 71232>>,
    <<71339, 71339>>, <<71341, 71341>>, <<71344, 71349>>, <<71351, 71351>>,
    <<71453, 71455>>, <<71458, 71461>>, <<71463, 71467>>, <<71727, 71735>>,
    <<71737, 71738>>, <<71995, 71996>>, <<71998, 71998>>, <<72003, 72003>>,
    <<72148, 72151>>, <<72154, 72155>>, <<72160, 72160>>, <<72193, 72202>>,
    <<72243, 72248>>, <<72251, 72254>>, <<72263, 72263>>, <<72273, 72278>>,
    <<72281, 72283>>, <<72330, 72342>>, <<72344, 72345>>, <<72752, 72758>>,
    <<72760, 72765>>, <<72767, 72767>>, <<72850, 72871>>, <<72874, 72880>>,
    <<72882, 72883>>, <<72885, 72886>>, <<73009, 73014>>, <<73018, 73018>>,
    <<73020, 73021>>, <<73023, 73029>>, <<73031, 73031>>, <<73104, 73105>>,
    <<73109, 73109>>, <<73111, 73111>>, <<73459, 73460>>, <<78896, 78904>>,
    <<92912, 92916>>, <<92976, 92982>>, <<92992, 92995>>, <<94031, 94031>>,
    <<94095, 94111>>, <<94176, 94177>>, <<94179, 94180>>, <<110576, 110579>>,
    <<110581, 110587>>, <<110589, 110590>>, <<113821, 113822>>,
    <<113824, 113827>>, <<118528, 118573>>, <<118576, 118598>>,
    <<119143, 119145>>, <<119155, 119170>>, <<119173, 119179>>,
    <<119210, 119213>>, <<119362, 119364>>, <<121344, 121398>>,
    <<121403, 121452>>, <<121461, 121461>>, <<121476, 121476>>,
    <<121499, 121503>>, <<121505, 121519>>, <<122880, 122886>>,
    <<122888, 122904>>, <<122907, 122913>>, <<122915, 122916>>,
    <<122918, 122922>>, <<123184, 123197>>, <<123566, 123566>>,
    <<123628, 123631>>, <<125136, 125142>>, <<125252, 125259>>,
    <<127995, 127999>>, <<917505, 917505>>, <<917536, 917631>>,
    <<917760, 917999>>
  >>

\* the code points with the Cased property, as closed intervals
CasedRanges ==
  <<
    <<65, 90>>, <<97, 122>>, <<170, 170>>, <<181, 181>>, <<186, 186>>,
    <<192, 214>>, <<216, 246>>, <<248, 442>>, <<444, 447>>, <<452, 659>>,
    <<661, 696>>, <<704, 705>>, <<736, 740>>, <<837, 837>>, <<880, 883>>,
    <<886, 887>>, <<890, 893>>, <<895, 895>>, <<902, 902>>, <<904, 906>>,
    <<908, 908>>, <<910, 929>>, <<931, 1013>>, <<1015, 1153>>, <<1162, 1327>>,
    <<1329, 1366>>, <<1376, 1416>>, <<4256, 4293>>, <<4295, 4295>>,
    <<4301, 4301>>, <<4304, 4346>>, <<4349, 4351>>, <<5024, 5109>>,
    <<5112, 5117>>, <<7296, 7304>>, <<7312, 7354>>, <<7357, 7359>>,
    <<7424, 7615>>, <<7680, 7957>>, <<7960, 7965>>, <<7968, 8005>>,
    <<8008, 8013>>, <<8016, 8023>>, <<8025, 8025>>, <<8027, 8027>>,
    <<8029, 8029>>, <<8031, 8061>>, <<8064, 8116>>, <<8118, 8124>>,
    <<8126, 8126>>, <<8130, 8132>>, <<8134, 8140>>, <<8144, 8147>>,
    <<8150, 8155>>, <<8160, 8172>>, <<8178, 8180>>, <<8182, 8188>>,
    <<8305, 8305>>, <<8319, 8319>>, <<8336, 8348>>, <<8450, 8450>>,
    <<8455, 8455>>, <<8458, 8467>>, <<8469, 8469>>, <<8473, 8477>>,
    <<8484, 8484>>, <<8486, 8486>>, <<8488, 8488>>, <<8490, 8493>>,
    <<8495, 8500>>, <<8505, 8505>>, <<8508, 8511>>, <<8517, 8521>>,
    <<8526, 8526>>, <<8544, 8575>>, <<8579, 8580>>, <<9398, 9449>>,
    <<11264, 11492>>, <<11499, 11502>>, <<11506, 11507>>, <<11520, 11557>>,
    <<11559, 11559>>, <<11565, 11565>>, <<42560, 42605>>, <<42624, 42653>>,
    <<42786, 42887>>, <<42891, 42894>>, <<42896, 42954>>, <<42960, 42961>>,
    <<42963, 42963>>, <<42965, 42969>>, <<42997, 42998>>, <<43000, 43002>>,
    <<43824, 43866>>, <<43868, 43880>>, <<43888, 43967>>, <<64256, 64262>>,
    <<64275, 64279>>, <<65313, 65338>>, <<65345, 65370>>, <<66560, 66639>>,
    <<66736, 66771>>, <<66776, 66811>>, <<66928, 66938>>, <<66940, 66954>>,
    <<66956, 66962>>, <<66964, 66965>>, <<66967, 66977>>, <<66979, 66993>>,
    <<66995, 67001>>, <<67003, 67004>>, <<67456, 67456>>, <<67459, 67461>>,
    <<67463, 67504>>, <<67506, 67514>>, <<68736, 68786>>, <<68800, 68850>>,
    <<71840, 71903>>, <<93760, 93823>>, <<119808, 119892>>,
    <<119894, 119964>>, <<119966, 119967>>, <<119970, 119970>>,
    <<119973, 119974>>, <<119977, 119980>>, <<119982, 119993>>,
    <<119995, 119995>>, <<119997, 120003>>, <<120005, 120069>>,
    <<120071, 120074>>, <<120077, 120084>>, <<120086, 120092>>,
    <<120094, 120121>>, <<120123, 120126>>, <<120128, 120132>>,
    <<120134, 120134>>, <<120138, 120144>>, <<120146, 120485>>,
    <<120488, 120512>>, <<120514, 120538>>, <<120540, 120570>>,
    <<120572, 120596>>, <<120598, 120628>>, <<120630, 120654>>,
    <<120656, 120686>>, <<120688, 120712>>, <<120714, 120744>>,
    <<120746, 120770>>, <<120772, 120779>>, <<122624, 122633>>,
    <<122635, 122654>>, <<125184, 125251>>, <<127280, 127305>>,
    <<127312, 127337>>, <<127344, 127369>>
  >>

CaseIgnorable(c) == InRanges(c, CaseIgnorableRanges)
Cased(c) == InRanges(c, CasedRanges)

\* the capital sigma at position i of s is in the Final_Sigma context: a cased
\* letter before it and none after it, case-ignorable characters skipped
FinalSigma(s, i) ==
  LET before == {j \in 1..(i - 1) : ~CaseIgnorable(s[j])}
      after == {j \in (i + 1)..Len(s) : ~CaseIgnorable(s[j])}
  IN /\ before # {}
     /\ Cased(s[CHOOSE j \in before : \A k \in before : k <= j])
     /\ \/ after = {}
        \/ ~Cased(s[CHOOSE j \in after : \A k \in after : j <= k])

\* str.upper()
RECURSIVE Upper(_)
Upper(s) == IF s = <<>> THEN <<>> ELSE UpperChar(Head(s)) \o Upper(Tail(s))

RECURSIVE LowerAt(_, _)
\* str.lower() of s from position i on: U+03A3 becomes U+03C2 in the Final_Sigma
\* context and U+03C3 elsewhere
LowerAt(s, i) ==
  IF i > Len(s) THEN <<>>
  ELSE (IF s[i] = 931 THEN (IF FinalSigma(s, i) THEN <<962>> ELSE <<963>>)
        ELSE LowerChar(s[i]))
       \o LowerAt(s, i + 1)

\* str.lower()
Lower(s) == LowerAt(s, 1)

\* the decimal digit d
DigitChar(d) == 48 + d

RECURSIVE NatStr(_)
NatStr(n) ==
  IF n < 10 THEN <<DigitChar(n)>> ELSE NatStr(n \div 10) \o <<DigitChar(n % 10)>>

\* str(n) of a Python int
IntStr(n) == IF n < 0 THEN <<45>> \o NatStr(0 - n) ELSE NatStr(n)

(* ------------------------------- cells -------------------------------- *)
Str(s) == [k |-> "str", s |-> s]
NaN == [k |-> "nan", s |-> <<>>]
None == [k |-> "none", s |-> <<>>]
NA == [k |-> "NA", s |-> <<>>]

\* pd.isna
IsNa(c) == c.k # "str"

\* str(c) of a cell, as Series.astype(str) applies it to an object column
strNan == Text(<<"n", "a", "n">>)
strNone == Text(<<"N", "o", "n", "e">>)
strNA == Text(<<"<", "N", "A", ">">>)

PyStr(c) ==
  CASE c.k = "str" -> c.s
    [] c.k = "nan" -> strNan
    [] c.k = "none" -> strNone
    [] OTHER -> strNA

(* ------------------------------ sequences ----------------------------- *)
Range(s) == {s[i] : i \in 1..Len(s)}

RECURSIVE SelectIdx(_, _, _)
\* the subsequence of s at the positions i (1-based) with keep[i]
SelectIdx(s, keep, i) ==
  IF i > Len(s) THEN <<>>
  ELSE (IF keep[i] THEN <<s[i]>> ELSE <<>>) \o SelectIdx(s, keep, i + 1)

Select(s, keep) == SelectIdx(s, keep, 1)

\* list(range(a, b))
PyRange(a, b) == [i \in 1..(IF b > a THEN b - a ELSE 0) |-> a + i - 1]

(* ----------------------------- DataFrame ------------------------------ *)
NRows(t) == Len(t.index)
NCols(t) == Len(t.columns)

\* the positions (1-based) of the columns named c
ColPos(t, c) == {j \in 1..NCols(t) : t.columns[j] = c}

KeepRows(t, keep) ==
  [index |-> Select(t.index, keep), columns |-> t.columns, dtypes |-> t.dtypes,
   rows |-> Select(t.rows, keep)]

KeepCols(t, keep) ==
  [index |-> t.index, columns |-> Select(t.columns, keep),
   dtypes |-> Select(t.dtypes, keep),
   rows |-> [i \in 1..NRows(t) |-> Select(t.rows[i], keep)]]

\* the dtype pandas infers for a column built from these cells
InferDtype(cells) ==
  IF cells # <<>> /\ \A i \in 1..Len(cells) : cells[i].k = "nan"
  THEN "float64" ELSE "object"

(* a reference to a DataFrame object: val, the value of the object it     *)
(* names; shared, whether that object is the one the caller passed in;    *)
(* caller, the value of the caller's object as it now is                  *)
Caller(t) == [val |-> t, shared |-> TRUE, caller |-> t]

\* the reference a pandas operation returns to the new object v it built
NewObject(h, v) == [val |-> v, shared |-> FALSE, caller |-> h.caller]

\* an assignment into the object h names: seen by the caller when h is its object
Write(h, v) ==
  [val |-> v, shared |-> h.shared, caller |-> IF h.shared THEN v ELSE h.caller]

\* a copy() that hands back the same object
DfCopyAlias(h) == h

\* DataFrame.copy(): a new object with the same value
DfCopy(h) == NewObject(h, h.val)

\* what a call leaves: the returned object, the object passed in as it is
\* after the call, the exception raised ("none": returned normally)
Ret(h) == [ret |-> h.val, arg |-> h.caller, err |-> "none", list |-> <<>>]
RetList(l, h) == [ret |-> h.caller, arg |-> h.caller, err |-> "none", list |-> l]
Raise(e, h) == [ret |-> h.caller, arg |-> h.caller, err |-> e, list |-> <<>>]

(* ---------------------------- remove_lines ---------------------------- *)
\* RowLabels with the interval's upper end included
RowLabelsInclusive(args, mode) ==
  IF mode = "interval" /\ Len(args) = 1 THEN PyRange(0, args[1] + 1)
  ELSE IF mode = "interval" /\ Len(args) = 2 THEN PyRange(args[1], args[2] + 1)
  ELSE args

\* the labels handed to DataFrame.drop
RowLabels(args, mode) ==
  IF mode = "interval" /\ Len(args) = 1 THEN PyRange(0, args[1])
  ELSE IF mode = "interval" /\ Len(args) = 2 THEN PyRange(args[1], args[2])
  ELSE args

\* DataFrame.drop(labels): by index label; KeyError when a label is not in the index
\* a new object
DropRows(h, labels) ==
  LET t == h.val IN
  IF \E l \in Range(labels) : l \notin Range(t.index)
  THEN Raise("KeyError", h)
  ELSE Ret(NewObject(h, KeepRows(t, [i \in 1..NRows(t) |->
                                       t.index[i] \notin Range(labels)])))

RemoveLines(t, args, mode) == DropRows(Caller(t), RowLabels(args, mode))

(* ---------------------------- filter_columns -------------------------- *)
\* an argument object: a str (s), or a list / set / Series / tuple of strs (items)
Scalar(s) == [t |-> "str", s |-> s, items |-> <<>>]
Coll(kind, items) == [t |-> kind, s |-> <<>>, items |-> items]

\* utils.py:178: a single list, Series or set argument is expanded
Expands(args) == Len(args) = 1 /\ args[1].t \in {"list", "Series", "set"}

\* the strings a cell can equal under isin(values): the values that are strs
FilterValues(args) ==
  IF Expands(args) THEN Range(args[1].items)
  ELSE {args[i].s : i \in {k \in 1..Len(args) : args[k].t = "str"}}

\* Series.str.strip() of one cell: missing values stay missing
CellStrip(c) == IF c.k = "str" THEN Str(Strip(c.s)) ELSE NaN

\* df[column].str.strip().isin(values)
FilterMask(t, j, values) ==
  [i \in 1..NRows(t) |->
     LET c == CellStrip(t.rows[i][j]) IN c.k = "str" /\ c.s \in values]

\* df[mask]: a new object holding the rows of the mask
BoolIndex(h, mask) == NewObject(h, KeepRows(h.val, mask))

FilterColumns(t, column, args) ==
  LET h == Caller(t)
      pos == ColPos(t, column)
  IN
  IF pos = {} THEN Raise("KeyError", h)
  \* df[column] is a DataFrame (two columns so named) or a float64 Series: no .str
  ELSE IF Cardinality(pos) > 1 THEN Raise("AttributeError", h)
  ELSE LET j == CHOOSE p \in pos : TRUE IN
       IF t.dtypes[j] # "object" THEN Raise("AttributeError", h)
       ELSE Ret(DfCopy(BoolIndex(h, FilterMask(t, j, FilterValues(args)))))

(* ---------------------------- remove_columns -------------------------- *)
Min(a, b) == IF a < b THEN a ELSE b

\* seq[a:b] of Python, for 0 <= a, b
PySlice(s, a, b) == SubSeq(s, Min(a, Len(s)) + 1, Min(b, Len(s)))

\* df.columns[...]: the names handed to DataFrame.drop(..., axis=1)
ColumnNames(t, args, mode) ==
  IF mode = "interval" /\ Len(args) = 1 THEN PySlice(t.columns, 0, args[1])
  ELSE IF mode = "interval" /\ Len(args) = 2 THEN PySlice(t.columns, args[1], args[2])
  ELSE [i \in 1..Len(args) |-> t.columns[args[i] + 1]]

\* DataFrame.drop(names, axis=1): by column name, every column so named
\* a new object
DropColumns(h, names) ==
  LET t == h.val IN
  Ret(NewObject(h, KeepCols(t, [j \in 1..NCols(t) |->
                                  t.columns[j] \notin Range(names)])))

RemoveColumns(t, args, mode) ==
  IF ~(mode = "interval" /\ Len(args) \in {1, 2})
       /\ \E i \in 1..Len(args) : args[i] >= NCols(t)
  THEN Raise("IndexError", Caller(t))
  ELSE DropColumns(Caller(t), ColumnNames(t, args, mode))

(* ---------------------------- rename_columns -------------------------- *)
\* DataFrame.set_axis(list(args), axis=1): a new object; ValueError on a length mismatch
RenameColumns(t, names) ==
  LET h == Caller(t) IN
  IF Len(names) # NCols(t) THEN Raise("ValueError", h)
  ELSE Ret(NewObject(h, [t EXCEPT !.columns = names]))

(* ---------------------------- extract_column -------------------------- *)
\* ~df.columns.duplicated(): the first occurrence of each name
FirstOccurrence(t) ==
  [j \in 1..NCols(t) |-> \A i \in 1..(j - 1) : t.columns[i] # t.columns[j]]

\* df.columns = [str(c).strip() for c in df.columns], written through h
StripColumnNames(h) ==
  Write(h, [h.val EXCEPT !.columns = [j \in 1..Len(h.val.columns) |->
                                       Strip(h.val.columns[j])]])

\* df.loc[:, mask]: a new object holding the columns of the mask
LocColumns(h, mask) == NewObject(h, KeepCols(h.val, mask))

RECURSIVE Unique(_)
\* Series.unique(): first-seen order
Unique(s) ==
  IF s = <<>> THEN <<>>
  ELSE LET init == Unique(SubSeq(s, 1, Len(s) - 1))
           x == s[Len(s)]
       IN IF x \in Range(init) THEN init ELSE Append(init, x)

\* the cells of column j
Column(t, j) == [i \in 1..NRows(t) |-> t.rows[i][j]]

\* .dropna().astype(str).str.strip().unique()
UniqueValues(cells) ==
  LET kept == Select(cells, [i \in 1..Len(cells) |-> ~IsNa(cells[i])])
  IN Unique([i \in 1..Len(kept) |-> Strip(PyStr(kept[i]))])

ExtractColumn(t, column, mode, args) ==
  LET a == StripColumnNames(DfCopy(LocColumns(Caller(t), FirstOccurrence(t))))
      d == a.val
      pos == ColPos(d, column)
  IN IF pos = {} THEN Raise("KeyError", a)
     ELSE IF Cardinality(pos) > 1 THEN Raise("AttributeError", a)
     ELSE LET u == UniqueValues(Column(d, CHOOSE j \in pos : TRUE))
          IN IF mode = "not-in"
             THEN RetList(Select(u, [i \in 1..Len(u) |-> u[i] \notin Range(args)]), a)
             ELSE IF mode = "in"
             THEN RetList(Select(u, [i \in 1..Len(u) |-> u[i] \in Range(args)]), a)
             ELSE Raise("ValueError", a)

(* ------------------------------ clean_key ----------------------------- *)
\* column_list = [col] if isinstance(col, str) else col
ColumnList(col) == IF col.t = "str" THEN <<col.s>> ELSE col.items

keyNAN == Text(<<"N", "A", "N">>)
keyNONE == Text(<<"N", "O", "N", "E">>)

\* .astype(str).str.strip().str.upper(), then 'NAN' and 'NONE' replaced by pd.NA
CleanCell(c) ==
  LET u == Upper(Strip(PyStr(c)))
  IN IF u = keyNAN \/ u = keyNONE THEN NA ELSE Str(u)

\* df[col] = ..., written through h
SetColumn(h, j) ==
  Write(h, [h.val EXCEPT
              !.rows = [i \in 1..Len(h.val.rows) |->
                          [h.val.rows[i] EXCEPT ![j] = CleanCell(@)]],
              !.dtypes[j] = "object"])

RECURSIVE CleanLoop(_, _)
\* the for loop of transform_df over the columns still to do
CleanLoop(h, cols) ==
  IF cols = <<>> THEN Ret(h)
  ELSE LET pos == ColPos(h.val, Head(cols)) IN
       IF pos = {} THEN Raise("KeyError", h)
       ELSE IF Cardinality(pos) > 1 THEN Raise("AttributeError", h)
       ELSE CleanLoop(SetColumn(h, CHOOSE j \in pos : TRUE), Tail(cols))

CleanKey(t, col) == CleanLoop(DfCopy(Caller(t)), ColumnList(col))

\* the transform named by o applied to t
Transform(t, o) ==
  CASE o.name = "remove_lines" -> RemoveLines(t, o.args, o.mode)
    [] o.name = "remove_columns" -> RemoveColumns(t, o.args, o.mode)
    [] o.name = "rename_columns" -> RenameColumns(t, o.cols)
    [] o.name = "filter_columns" -> FilterColumns(t, o.column, o.objs)
    [] o.name = "extract_column" -> ExtractColumn(t, o.column, o.mode, o.strs)
    [] OTHER -> CleanKey(t, o.objs[1])

(* --------------------------- pipeline state --------------------------- *)
NoOp == [name |-> "none", args |-> <<>>, mode |-> "", column |-> <<>>,
         cols |-> <<>>, objs |-> <<>>, strs |-> <<>>]

\* no second application of the last transform yet
NotAgain == [done |-> FALSE, ret |-> <<>>, err |-> "none", list |-> <<>>]

\* one transform applied to the current table through DataFrame.pipe
Apply(res, o) ==
  /\ df' = IF res.err = "none" THEN res.ret ELSE df
  /\ prev' = df
  /\ arg' = res.arg
  /\ op' = o
  /\ err' = res.err
  /\ out' = res.list
  /\ steps' = steps + 1
  /\ again' = NotAgain

\* the pipeline goes on from a table a transform returned
CanStep ==
  /\ err = "none" /\ steps < MaxSteps /\ op.name # "extract_column"
  /\ ~again.done

Idx == 0..MaxRows
IntArgs == {<<>>} \cup {<<a>> : a \in Idx} \cup {<<a, b>> : a, b \in Idx}
Modes == {"individual", "interval"}

cA == Text(<<"A">>)
cB == Text(<<"B">>)
cZ == Text(<<"Z">>)
sV == Text(<<"v">>)
sA == Text(<<"a">>)
sO == Text(<<"o">>)

\* the (column, values...) argument lists the pipeline is driven with
FilterArgs ==
  << <<>>, <<Scalar(sV)>>, <<Scalar(sV), Scalar(sA)>>, <<Scalar(Text(<<" ", "v">>))>>,
     <<Coll("list", <<sV, sA>>)>>, <<Coll("set", <<sA, sV>>)>>,
     <<Coll("Series", <<sO>>)>>, <<Coll("tuple", <<sV, sA>>)>>,
     <<Coll("list", <<>>)>> >>

RemoveLinesStep ==
  /\ CanStep
  /\ \E a \in IntArgs, m \in Modes :
       Apply(RemoveLines(df, a, m),
             [NoOp EXCEPT !.name = "remove_lines", !.args = a, !.mode = m])
  /\ UNCHANGED <<prevOp, periodVars, readVars, settingsVars>>

FilterColumnsStep ==
  /\ CanStep
  /\ \E c \in {cB, cZ}, k \in 1..Len(FilterArgs) :
       Apply(FilterColumns(df, c, FilterArgs[k]),
             [NoOp EXCEPT !.name = "filter_columns", !.column = c, !.objs = FilterArgs[k]])
  /\ UNCHANGED <<prevOp, periodVars, readVars, settingsVars>>

cX == Text(<<"X">>)
cSpB == Text(<<" ", "B">>)

(* a freshly read table: RangeIndex labels, columns A (the source row     *)
(* number) and B (a category with stray whitespace, or missing)           *)
BVals == {Str(Text(<<"\t", "v", " ">>)), Str(sA), Str(sO), NaN}

FreshTable(n, b) ==
  [index |-> [i \in 1..n |-> i - 1],
   columns |-> <<cA, cB>>,
   dtypes |-> <<"object", InferDtype(b)>>,
   rows |-> [i \in 1..n |-> <<Str(IntStr(i - 1)), b[i]>>]]

RowTables(m) == {FreshTable(n, b) : <<n, b>> \in
                   UNION {{<<k, f>> : f \in [1..k -> BVals]} : k \in 0..m}}

slash == Text(<<"/">>)

(* a freshly read table with the given column names: column key holds the  *)
(* values b, every other cell holds its own "row/column" coordinates       *)
GenTable(layout, key, n, b) ==
  [index |-> [i \in 1..n |-> i - 1],
   columns |-> layout,
   dtypes |-> [j \in 1..Len(layout) |-> IF j = key THEN InferDtype(b) ELSE "object"],
   rows |-> [i \in 1..n |->
              [j \in 1..Len(layout) |->
                 IF j = key THEN b[i]
                 ELSE Str(IntStr(i - 1) \o slash \o IntStr(j - 1))]]]

GenTables(layouts, keyName, vals, m) ==
  {GenTable(x[1], x[2], x[3], x[4]) : x \in
     UNION {UNION {{<<l, IF \E j \in 1..Len(l) : Strip(l[j]) = keyName
                         THEN CHOOSE j \in 1..Len(l) :
                                /\ Strip(l[j]) = keyName
                                /\ \A i \in 1..(j - 1) : Strip(l[i]) # keyName
                         ELSE 0,
                      k, f>> : f \in [1..k -> vals]} : k \in 1..m} : l \in layouts}}

ColumnLayouts == {<<cA, cB>>, <<cB, cA, cB>>, <<cA, cB, cZ>>, <<cA>>}
ColumnTables(m) == GenTables(ColumnLayouts, cZ, {NaN}, m)

KeyVals == {Str(Text(<<" ", "n", "a", "n">>)), Str(Text(<<"N", "o", "n", "e">>)), NaN,
            None, Str(Text(<<"\t", "k">>)), Str(Text(<<"K">>))}
KeyTables(m) == GenTables({<<cA, cX>>}, cX, KeyVals, m)

ExtractLayouts == {<<cA, cB>>, <<cB, cA, cB>>, <<cSpB, cA>>, <<cB, cSpB>>, <<cA>>}
ExtractVals == {Str(sV), Str(Text(<<" ", "v", "\n">>)), Str(sA), NaN}
ExtractTables(m) == GenTables(ExtractLayouts, cB, ExtractVals, m)

\* the pipeline before its first transform: the table as read
TableStart(t) ==
  /\ df = t /\ prev = t /\ arg = t
  /\ op = NoOp /\ prevOp = NoOp
  /\ err = "none" /\ out = <<>> /\ steps = 0 /\ again = NotAgain

IdlePeriod == month = <<>> /\ period = <<>>
IdleRead == rin = <<>> /\ rpc = "idle" /\ rkw = <<>> /\ rlog = <<>> /\ rres = "none"
IdleSettings == cfg = <<>> /\ spc = "idle" /\ sreport = <<>> /\ sres = "none"

Init ==
  /\ \E t \in RowTables(MaxRows) : TableStart(t)
  /\ IdlePeriod /\ IdleRead /\ IdleSettings

Next == RemoveLinesStep \/ FilterColumnsStep

\* the row pipeline: remove_lines and filter_columns piped over a fresh table
Spec == Init /\ [][Next]_vars

(* ------------------------- the column pipeline ------------------------ *)
RenameArgs == {<<cA, cB>>, <<cB, cB>>, <<cA, cB, cA>>, <<cZ>>}

RemoveColumnsStep ==
  /\ CanStep
  /\ \E a \in IntArgs, m \in Modes :
       Apply(RemoveColumns(df, a, m),
             [NoOp EXCEPT !.name = "remove_columns", !.args = a, !.mode = m])
  /\ UNCHANGED <<prevOp, periodVars, readVars, settingsVars>>

RenameColumnsStep ==
  /\ CanStep
  /\ \E n \in RenameArgs :
       Apply(RenameColumns(df, n), [NoOp EXCEPT !.name = "rename_columns", !.cols = n])
  /\ UNCHANGED <<prevOp, periodVars, readVars, settingsVars>>

InitColumns ==
  /\ \E t \in ColumnTables(MaxRows) : TableStart(t)
  /\ IdlePeriod /\ IdleRead /\ IdleSettings

NextColumns == RemoveColumnsStep \/ RenameColumnsStep

\* remove_columns and rename_columns piped over a fresh table
SpecColumns == InitColumns /\ [][NextColumns]_vars

(* ----------------------- the normalisation pipeline ------------------- *)
KeyArgs == <<Scalar(cX), Coll("list", <<cX>>), Coll("list", <<cA, cX>>),
             Coll("list", <<cX, cZ>>)>>

CleanKeyStep ==
  /\ CanStep
  /\ \E k \in 1..Len(KeyArgs) :
       Apply(CleanKey(df, KeyArgs[k]),
             [NoOp EXCEPT !.name = "clean_key", !.objs = <<KeyArgs[k]>>])
  /\ prevOp' = op
  /\ UNCHANGED <<periodVars, readVars, settingsVars>>

InitKey ==
  /\ \E t \in KeyTables(MaxRows) : TableStart(t)
  /\ IdlePeriod /\ IdleRead /\ IdleSettings

NextKey == CleanKeyStep

\* clean_key piped over a fresh table, once or more
SpecKey == InitKey /\ [][NextKey]_vars

(* ---------------------------- the extraction -------------------------- *)
ExtractModes == {"not-in", "in", "all"}
ExtractArgs == {<<>>, <<sV>>, <<sA, sV>>}

ExtractColumnStep ==
  /\ CanStep
  /\ \E c \in {cB, cZ}, m \in ExtractModes, a \in ExtractArgs :
       Apply(ExtractColumn(df, c, m, a),
             [NoOp EXCEPT !.name = "extract_column", !.column = c, !.mode = m, !.strs = a])
  /\ UNCHANGED <<prevOp, periodVars, readVars, settingsVars>>

InitExtract ==
  /\ \E t \in ExtractTables(MaxRows) : TableStart(t)
  /\ IdlePeriod /\ IdleRead /\ IdleSettings

NextExtract == ExtractColumnStep

\* extract_column applied to a fresh table
SpecExtract == InitExtract /\ [][NextExtract]_vars

(* ------------------------- every transform, piped --------------------- *)
InitFrame ==
  /\ \E t \in ColumnTables(MaxFrameRows) \cup KeyTables(MaxFrameRows)
                \cup ExtractTables(MaxFrameRows) :
       TableStart(t)
  /\ IdlePeriod /\ IdleRead /\ IdleSettings

\* the transform just applied, applied once more to the object it was given
ReapplyStep ==
  /\ steps >= 1 /\ ~again.done
  /\ LET r == Transform(arg, op) IN
       /\ again' = [done |-> TRUE, ret |-> r.ret, err |-> r.err, list |-> r.list]
       /\ arg' = r.arg
  /\ UNCHANGED <<df, prev, op, prevOp, err, out, steps,
                 periodVars, readVars, settingsVars>>

NextFrame ==
  \/ ReapplyStep
  \/ RemoveLinesStep
  \/ RemoveColumnsStep
  \/ RenameColumnsStep
  \/ FilterColumnsStep
  \/ ExtractColumnStep
  \/ CleanKeyStep

\* any pipeline of the six transforms over a fresh table
SpecFrame == InitFrame /\ [][NextFrame]_vars

(* -------------------------- current_ano_safra ------------------------- *)
\* current_ano_safra accepting month 0
CurrentAnoSafraFromZero(m) ==
  IF ~(0 <= m /\ m <= 12) THEN [err |-> "ValueError", val |-> <<>>]
  ELSE IF m = 4 THEN [err |-> "none", val |-> IntStr(1)]
  ELSE IF m >= 5 THEN [err |-> "none", val |-> IntStr(m - 3)]
  ELSE [err |-> "none", val |-> IntStr(m + 9)]

\* current_ano_safra(month) for an int month
CurrentAnoSafra(m) ==
  IF ~(1 <= m /\ m <= 12) THEN [err |-> "ValueError", val |-> <<>>]
  ELSE IF m = 4 THEN [err |-> "none", val |-> IntStr(1)]
  ELSE IF m >= 5 THEN [err |-> "none", val |-> IntStr(m - 3)]
  ELSE [err |-> "none", val |-> IntStr(m + 9)]

\* the call: month None takes datetime.now().month
CurrentAnoSafraStep ==
  /\ period.pc = "call"
  /\ LET m == IF month.given THEN month.m ELSE month.now
         r == CurrentAnoSafra(m)
     IN period' = [pc |-> "done", err |-> r.err, val |-> r.val]
  /\ UNCHANGED <<month, tableVars, readVars, settingsVars>>

IdleTable ==
  /\ df = <<>> /\ prev = <<>> /\ arg = <<>> /\ op = NoOp /\ prevOp = NoOp
  /\ err = "none" /\ out = <<>> /\ steps = 0 /\ again = NotAgain

InitPeriod ==
  /\ \/ \E m \in (0 - MaxMonth)..MaxMonth : month = [given |-> TRUE, m |-> m, now |-> 1]
     \/ \E n \in 1..12 : month = [given |-> FALSE, m |-> 0, now |-> n]
  /\ period = [pc |-> "call", err |-> "none", val |-> <<>>]
  /\ IdleTable /\ IdleRead /\ IdleSettings

NextPeriod == CurrentAnoSafraStep

\* current_ano_safra called once on each month
SpecPeriod == InitPeriod /\ [][NextPeriod]_vars

(* --------------------------- read_safe_excel -------------------------- *)
xlsx == Text(<<".", "x", "l", "s", "x">>)
xlsm == Text(<<".", "x", "l", "s", "m">>)
xls == Text(<<".", "x", "l", "s">>)
xlsb == Text(<<".", "x", "l", "s", "b">>)

\* the engines dict; "" where the extension is not a key
Engines(ext) ==
  CASE ext = xlsx -> "openpyxl"
    [] ext = xlsm -> "openpyxl"
    [] ext = xls -> "xlrd"
    [] ext = xlsb -> "pyxlsb"
    [] OTHER -> ""

\* the engine selection with the mapped engine written over a supplied one
SelectEngineOverride(ext, kw) ==
  IF Engines(ext) # ""
  THEN [kw |-> [given |-> TRUE, name |-> Engines(ext)], warn |-> FALSE]
  ELSE [kw |-> kw, warn |-> ~kw.given]

\* utils.py:100-104: the engine keyword handed to pd.read_excel, and whether the
\* uncatalogued-extension warning is emitted
SelectEngine(ext, kw) ==
  IF Engines(ext) # "" /\ ~kw.given
  THEN [kw |-> [given |-> TRUE, name |-> Engines(ext)], warn |-> FALSE]
  ELSE [kw |-> kw, warn |-> ~kw.given]

\* validate_file(path)
ValidateFile(f) ==
  IF ~f.exists THEN "FileNotFoundError"
  ELSE IF ~f.readable THEN "PermissionError"
  ELSE "none"

ValidateFileStep ==
  /\ rpc = "validate"
  /\ rlog' = Append(rlog, "validate_file")
  /\ LET e == ValidateFile(rin) IN
       IF e = "none" THEN rpc' = "select" /\ rres' = rres
       ELSE rpc' = "raised" /\ rres' = e
  /\ UNCHANGED <<rin, rkw, tableVars, periodVars, settingsVars>>

SelectEngineStep ==
  /\ rpc = "select"
  /\ LET r == SelectEngine(Lower(rin.suffix), rkw) IN
       /\ rkw' = r.kw
       /\ rlog' = IF r.warn THEN Append(rlog, "warn_extension") ELSE rlog
  /\ rpc' = "read"
  /\ UNCHANGED <<rin, rres, tableVars, periodVars, settingsVars>>

\* pd.read_excel(p, **kwargs): returns, or raises what the reader raises
ReadExcelStep ==
  /\ rpc = "read"
  /\ rlog' = Append(rlog, "read_excel")
  /\ IF rin.outcome = "ok" THEN rpc' = "returned" /\ rres' = "DataFrame"
     ELSE rpc' = "except" /\ rres' = rres
  /\ UNCHANGED <<rin, rkw, tableVars, periodVars, settingsVars>>

\* the except clauses: a warning, then the bare raise
HandleFailureStep ==
  /\ rpc = "except"
  /\ rlog' = Append(rlog, IF rin.outcome = "ImportError" THEN "warn_missing_package"
                         ELSE "warn_read_error")
  /\ rres' = rin.outcome
  /\ rpc' = "raised"
  /\ UNCHANGED <<rin, rkw, tableVars, periodVars, settingsVars>>

\* suffixes: the catalogued ones, in lower, upper and mixed case; uncatalogued ones,
\* among them ".xl" with U+017F (long s, which lower() leaves) and "." with the
\* Greek capitals U+0391 U+03A3; and no suffix
Suffixes == {xlsx, Text(<<".", "X", "L", "S", "X">>), xlsm, Text(<<".", "X", "l", "s", "M">>),
             xls, Text(<<".", "X", "l", "s">>), xlsb, Text(<<".", "x", "l", "S", "B">>),
             Text(<<".", "T", "X", "T">>), Text(<<".", "c", "s", "v">>),
             Text(<<".", "x", "l">>) \o <<383>>, Text(<<".">>) \o <<913, 931>>, <<>>}
EngineKwargs == {[given |-> FALSE, name |-> ""], [given |-> TRUE, name |-> "openpyxl"],
                 [given |-> TRUE, name |-> "calamine"]}
Outcomes == {"ok", "ImportError", "ValueError"}

InitRead ==
  /\ \E e, r \in BOOLEAN, x \in Suffixes, k \in EngineKwargs, o \in Outcomes :
       /\ rin = [exists |-> e, readable |-> r, suffix |-> x, engine |-> k, outcome |-> o]
       /\ rkw = k
  /\ rpc = "validate" /\ rlog = <<>> /\ rres = "none"
  /\ IdleTable /\ IdlePeriod /\ IdleSettings

NextRead == ValidateFileStep \/ SelectEngineStep \/ ReadExcelStep \/ HandleFailureStep

\* one call of read_safe_excel
SpecRead == InitRead /\ [][NextRead]_vars

(* ------------------------------ Settings ------------------------------ *)
\* the fields of PathConfig, in declaration order; the last is the DirectoryPath
PathFields == <<"base", "cadastro", "gka_por_segmento", "lista_gka", "portfolio",
                "oem", "sellin", "output_path">>

\* what the paths mapping holds for a field: nothing ("missing"), a value that is
\* no path, such as a number or null ("notpath"), a path that does not exist
\* ("nonexistent"), a path to the wrong kind of entry, a directory for a FilePath or
\* a file for the DirectoryPath ("wrongkind"), or a path to an existing entry of the
\* right kind ("ok")
FieldStates == {"missing", "notpath", "nonexistent", "wrongkind", "ok"}

\* the type of the pydantic error for field f in state st
ErrorType(f, st) ==
  IF st = "missing" THEN "missing"
  ELSE IF st = "notpath" THEN "path_type"
  ELSE IF f = "output_path" THEN "path_not_directory"
  ELSE "path_not_file"

\* PathConfig(**fields): the errors of the ValidationError, one per failing field
RECURSIVE ValidationErrors(_, _)
ValidationErrors(fields, k) ==
  IF k > Len(PathFields) THEN <<>>
  ELSE LET f == PathFields[k] IN
       (IF fields[f] = "ok" THEN <<>>
        ELSE <<[loc |-> f, type |-> ErrorType(f, fields[f])]>>)
       \o ValidationErrors(fields, k + 1)

AllMissing == [f \in Range(PathFields) |-> "missing"]
AllOk == [f \in Range(PathFields) |-> "ok"]

\* what the file holds under the ui / outputs key: no such key ("absent"), a mapping,
\* or a value that is no mapping, such as null, a list or a scalar ("null")
SectionStates == {"absent", "mapping", "null"}

\* the lines printed by the except ValidationError clause: the field of each error
ReportOf(errors) == [i \in 1..Len(errors) |-> errors[i].loc]

\* the RuntimeError raised, with its message (written here without accents) and
\* the fields printed before it
Failed(msg, report) == [kind |-> "RuntimeError", msg |-> msg, report |-> report]

(* Settings.__init__ on the file described by c: whether it exists and      *)
(* parses, what yaml.load returns ("empty": None, the empty document;       *)
(* "mapping"), whether the mapping has a paths key ("absent"), with no      *)
(* value ("null") or with a mapping of the fields, and what the ui and      *)
(* outputs keys hold                                                         *)
SettingsInit(c) ==
  IF ~c.exists THEN Failed("Configuracao invalida", <<>>)
  ELSE IF ~c.parses THEN Failed("Erro Inesperado", <<>>)
  \* raw_data.get on the None of an empty document: AttributeError
  ELSE IF c.top # "mapping" THEN Failed("Erro Inesperado", <<>>)
  \* PathConfig(**None): TypeError
  ELSE IF c.paths = "null" THEN Failed("Erro Inesperado", <<>>)
  ELSE LET errors == ValidationErrors(IF c.paths = "absent" THEN AllMissing
                                      ELSE c.fields, 1)
       IN IF errors # <<>> THEN Failed("Codigo Interrompido", ReportOf(errors))
          \* raw_data.get('ui', {}).get on a ui that is no mapping: AttributeError
          ELSE IF c.ui = "null" THEN Failed("Erro Inesperado", <<>>)
          \* raw_data.get('outputs', {}).get likewise
          ELSE IF c.outputs = "null" THEN Failed("Erro Inesperado", <<>>)
          ELSE [kind |-> "Settings", msg |-> "", report |-> <<>>]

SettingsInitStep ==
  /\ spc = "new"
  /\ LET r == SettingsInit(cfg) IN
       /\ sres' = r.kind
       /\ sreport' = [msg |-> r.msg, fields |-> r.report]
  /\ spc' = "done"
  /\ UNCHANGED <<cfg, tableVars, periodVars, readVars>>

InitSettings ==
  /\ \/ \E e, p \in BOOLEAN, u, o \in SectionStates :
          \E x \in {<<"empty", "absent">>, <<"mapping", "absent">>, <<"mapping", "null">>} :
            cfg = [exists |-> e, parses |-> p, top |-> x[1], paths |-> x[2],
                   fields |-> AllMissing, ui |-> u, outputs |-> o]
     \/ \E fs \in [Range(PathFields) -> FieldStates] :
          cfg = [exists |-> TRUE, parses |-> TRUE, top |-> "mapping", paths |-> "mapping",
                 fields |-> fs, ui |-> "mapping", outputs |-> "mapping"]
     \/ \E f \in Range(PathFields), st \in FieldStates, u, o \in SectionStates :
          cfg = [exists |-> TRUE, parses |-> TRUE, top |-> "mapping", paths |-> "mapping",
                 fields |-> [AllOk EXCEPT ![f] = st], ui |-> u, outputs |-> o]
  /\ spc = "new" /\ sreport = <<>> /\ sres = "none"
  /\ IdleTable /\ IdlePeriod /\ IdleRead

NextSettings == SettingsInitStep

\* one construction of Settings
SpecSettings == InitSettings /\ [][NextSettings]_vars

(* ------------------------- claims: row pipeline ----------------------- *)
\* the rows of t at the 0-based positions outside P, in order
RowsOutside(t, P) == Select(t.rows, [i \in 1..NRows(t) |-> (i - 1) \notin P])

IsRemoveLines == steps >= 1 /\ op.name = "remove_lines"
IsIntervalOne == IsRemoveLines /\ op.mode = "interval" /\ Len(op.args) = 1
IsIntervalTwo == IsRemoveLines /\ op.mode = "interval" /\ Len(op.args) = 2
IsIndividual == IsRemoveLines /\ op.mode = "individual"

\* C1 (as claimed): at any point of a pipeline of remove_rows / filter_rows_by_value,
\* remove_rows(n, interval) with n <= the current row count deletes exactly the rows
\* currently at positions [0, n), and remove_rows(i..., individual) with every i below
\* the current row count deletes exactly the rows currently at the listed positions;
\* the other rows stay, in order.
C1_CurrentPositions ==
  /\ (IsIntervalOne /\ op.args[1] <= NRows(prev))
       => (err = "none" /\ df.rows = RowsOutside(prev, 0..(op.args[1] - 1)))
  /\ (IsIndividual /\ \A i \in 1..Len(op.args) : op.args[i] < NRows(prev))
       => (err = "none" /\ df.rows = RowsOutside(prev, Range(op.args)))

\* C7: on a freshly read N-row table, remove_rows(n, interval), 0 <= n <= N, leaves
\* the N - n rows from position n on, in order, the first being the original row n;
\* remove_rows(a, b, interval), 0 <= a <= b <= N, leaves the rows outside [a, b).
C7_FreshInterval ==
  /\ (steps = 1 /\ IsIntervalOne /\ op.args[1] <= NRows(prev))
       => /\ err = "none"
          /\ NRows(df) = NRows(prev) - op.args[1]
          /\ df.rows = SubSeq(prev.rows, op.args[1] + 1, NRows(prev))
          /\ df.columns = prev.columns
          /\ NRows(df) > 0 => df.rows[1][1] = Str(IntStr(op.args[1]))
  /\ (steps = 1 /\ IsIntervalTwo /\ op.args[1] <= op.args[2] /\ op.args[2] <= NRows(prev))
       => /\ err = "none"
          /\ df.rows = SubSeq(prev.rows, 1, op.args[1])
                         \o SubSeq(prev.rows, op.args[2] + 1, NRows(prev))
          /\ df.columns = prev.columns

\* remove_rows(2, interval) on a fresh 3-row table left the row of position 2
C7_Witness ==
  /\ steps = 1 /\ IsIntervalOne /\ op.args = <<2>> /\ NRows(prev) = 3
  /\ NRows(df) = 1 /\ df.rows[1][1] = Str(Text(<<"2">>))

IsFilter == steps >= 1 /\ op.name = "filter_columns"

\* the row of t labelled l
RowOf(t, l) == t.rows[CHOOSE i \in 1..NRows(t) : t.index[i] = l]

\* the labels of the rows of t whose cell in the column named c is a string that,
\* trimmed, is one of vals
Matching(t, c, vals) ==
  {t.index[i] : i \in {k \in 1..NRows(t) :
      LET x == t.rows[k][CHOOSE j \in ColPos(t, c) : TRUE]
      IN x.k = "str" /\ \E v \in vals : Strip(x.s) = v}}

\* the table df is the rows of prev labelled L, in prev's order, cells untouched
KeepsExactly(L) ==
  /\ err = "none"
  /\ df.columns = prev.columns /\ df.dtypes = prev.dtypes
  /\ Range(df.index) = L
  /\ \A i \in 1..NRows(df) : df.rows[i] = RowOf(prev, df.index[i])
  /\ \A i, j \in 1..NRows(df) : i < j => df.index[i] < df.index[j]

\* the values as the claim reads them: a single collection argument of any kind
\* stands for its items
ValuesAnyCollection(objs) ==
  IF Len(objs) = 1 /\ objs[1].t # "str" THEN Range(objs[1].items)
  ELSE {objs[i].s : i \in 1..Len(objs)}

\* C5 (as claimed): filter_rows_by_value(column, values...) keeps exactly the rows
\* whose value in column, trimmed, is one of values, given as several scalars or as
\* a single collection, in order and with untrimmed cells; it fails with
\* ColumnNotFound when column is absent.
C5_AnyCollection ==
  IsFilter =>
    IF ColPos(prev, op.column) = {} THEN err = "KeyError" /\ df = prev
    ELSE KeepsExactly(Matching(prev, op.column, ValuesAnyCollection(op.objs)))

(* ------------------------ claims: column pipeline --------------------- *)
IsRemoveColumns == steps >= 1 /\ op.name = "remove_columns"

\* the 0-based column positions remove_columns is asked to remove from t
AskedPositions(t) ==
  IF op.mode = "interval" /\ Len(op.args) = 1
  THEN {q \in 0..(NCols(t) - 1) : q < op.args[1]}
  ELSE IF op.mode = "interval" /\ Len(op.args) = 2
  THEN {q \in 0..(NCols(t) - 1) : op.args[1] <= q /\ q < op.args[2]}
  ELSE Range(op.args)

\* t without the columns at the 0-based positions P: names, order and values kept
ColumnsOutside(t, P) == KeepCols(t, [j \in 1..NCols(t) |-> (j - 1) \notin P])

\* C8 (as claimed): remove_columns removes exactly the columns at the asked positions
\* (listed; [0, n); [a, b)) of any table, duplicate column names included, and keeps
\* every other column with its name, order and values.
C8_ByPosition ==
  (IsRemoveColumns /\ \A q \in AskedPositions(prev) : q < NCols(prev))
    => (err = "none" /\ df = ColumnsOutside(prev, AskedPositions(prev)))

(* --------------------- claims: normalisation pipeline ----------------- *)
OnlyX(o) == o.name = "clean_key" /\ ColumnList(o.objs[1]) = <<cX>>

\* C2 (as claimed): normalize_key(["X"]) applied twice in succession gives the table
\* that one application gives; a value the first application made missing is still
\* missing after the second.
C2_Idempotent ==
  (steps = 2 /\ OnlyX(op) /\ OnlyX(prevOp))
    => (err = "none" /\ df = prev)

(* ---------------------------- claims: extraction ---------------------- *)
IsExtract == steps >= 1 /\ op.name = "extract_column"

\* the table the claim describes: duplicate-named columns dropped (first kept),
\* then every column name trimmed
Cleaned(t) ==
  LET d == KeepCols(t, FirstOccurrence(t))
  IN [d EXCEPT !.columns = [j \in 1..NCols(d) |-> Strip(d.columns[j])]]

\* the non-missing values of the first column of t named c, as trimmed strings
ValuesOf(t, c) ==
  LET j == CHOOSE q \in ColPos(t, c) : \A r \in ColPos(t, c) : q <= r
  IN {Strip(PyStr(t.rows[i][j])) : i \in {k \in 1..NRows(t) : ~IsNa(t.rows[k][j])}}

\* the first row of t where the first column named c holds v, trimmed
FirstSeen(t, c, v) ==
  LET j == CHOOSE q \in ColPos(t, c) : \A r \in ColPos(t, c) : q <= r
  IN CHOOSE i \in 1..NRows(t) :
       /\ ~IsNa(t.rows[i][j]) /\ Strip(PyStr(t.rows[i][j])) = v
       /\ \A k \in 1..(i - 1) : IsNa(t.rows[k][j]) \/ Strip(PyStr(t.rows[k][j])) # v

\* C6 (as claimed): on any table, duplicated or whitespace-variant column names
\* included, extract_unique_values fails with ColumnNotFound when the column is absent
\* from the cleaned names, with InvalidArgument on a mode other than in / not-in, and
\* otherwise returns the column's non-missing trimmed values, without repeats, in
\* first-seen order, restricted by mode to those among / not among the given values.
C6_ListOrColumnNotFound ==
  IsExtract =>
    LET t == Cleaned(prev) IN
    IF ColPos(t, op.column) = {} THEN err = "KeyError"
    ELSE IF op.mode \notin {"in", "not-in"} THEN err = "ValueError"
    ELSE /\ err = "none"
         /\ Range(out) = {v \in ValuesOf(t, op.column) :
                            (op.mode = "in") <=> (v \in Range(op.strs))}
         /\ \A i, j \in 1..Len(out) :
              i < j => FirstSeen(t, op.column, out[i]) < FirstSeen(t, op.column, out[j])

FailingFields(c) ==
  IF c.top = "empty" \/ c.paths = "absent" THEN Range(PathFields)
  ELSE {f \in Range(PathFields) : c.fields[f] # "ok"}

\* C3 (as claimed): constructing from an existing, parseable file whose paths section
\* is absent, or holds any combination of missing / nonexistent / wrong-kind fields,
\* fails with RuntimeError "Codigo Interrompido" and reports every failing field by
\* name; construction succeeds only when all 8 fields are valid.
C3_EveryFieldReported ==
  (spc = "done" /\ cfg.exists /\ cfg.parses /\ cfg.paths # "null")
    => /\ FailingFields(cfg) # {}
          => /\ sres = "RuntimeError"
             /\ sreport.msg = "Codigo Interrompido"
             /\ Range(sreport.fields) = FailingFields(cfg)
       /\ sres = "Settings" => FailingFields(cfg) = {}

(* ------------------------- claims: current_ano_safra ------------------ *)
\* the value of the decimal digit c, negative for any other character
DigitValue(c) == IF c \in 48..57 THEN c - 48 ELSE 0 - 1000

RECURSIVE Decimal(_)
\* the number a string of decimal digits denotes
Decimal(s) ==
  IF s = <<>> THEN 0 ELSE 10 * Decimal(SubSeq(s, 1, Len(s) - 1)) + DigitValue(s[Len(s)])

\* a decimal numeral without sign or leading zero
IsNumeral(s) ==
  /\ s # <<>>
  /\ \A i \in 1..Len(s) : DigitValue(s[i]) >= 0
  /\ Len(s) > 1 => s[1] # 48

MonthUsed == IF month.given THEN month.m ELSE month.now

\* C4: for every month m in 1..12 the label follows the three-branch rule (4 -> "1",
\* m >= 5 -> str(m - 3), m in 1..3 -> str(m + 9)); for every integer m outside 1..12
\* the call fails with ValueError and returns no label.
C4_ThreeBranchRule ==
  period.pc = "done" =>
    IF MonthUsed \in 1..12
    THEN /\ period.err = "none"
         /\ IsNumeral(period.val)
         /\ MonthUsed = 4 => period.val = Text(<<"1">>)
         /\ MonthUsed >= 5 => Decimal(period.val) = MonthUsed - 3
         /\ MonthUsed < 4 => Decimal(period.val) = MonthUsed + 9
         /\ MonthUsed = 9 => period.val = Text(<<"6">>)
         /\ MonthUsed = 1 => period.val = Text(<<"1", "0">>)
    ELSE period.err = "ValueError" /\ period.val = <<>>

\* current_period(1) returned "10"
C4_Witness ==
  period.pc = "done" /\ month.given /\ month.m = 1 /\ period.val = Text(<<"1", "0">>)

(* -------------------------- claims: read_safe_excel ------------------- *)
\* suffix spells ext, a dot and lower-case ASCII letters, in any letter case: each
\* character is that of ext or its capital, 32 code points below
Spells(suffix, ext) ==
  /\ Len(suffix) = Len(ext)
  /\ \A i \in 1..Len(ext) :
       \/ suffix[i] = ext[i]
       \/ ext[i] \in 97..122 /\ suffix[i] = ext[i] - 32

\* the engine table of the specification, the extension read in any letter case
MappedEngine(suffix) ==
  IF Spells(suffix, Text(<<".", "x", "l", "s", "x">>)) THEN "openpyxl"
  ELSE IF Spells(suffix, Text(<<".", "x", "l", "s", "m">>)) THEN "openpyxl"
  ELSE IF Spells(suffix, Text(<<".", "x", "l", "s">>)) THEN "xlrd"
  ELSE IF Spells(suffix, Text(<<".", "x", "l", "s", "b">>)) THEN "pyxlsb"
  ELSE ""

Count(s, e) == Cardinality({i \in 1..Len(s) : s[i] = e})
ReadTried == "read_excel" \in Range(rlog)

\* C10: validate_file is called before any read and its failure is propagated
\* unchanged without reading; otherwise the read uses the engine mapped from the
\* extension, in any letter case, when none was supplied and the supplied engine
\* when one was;
\* the unrecognized-extension warning is emitted exactly when the extension is
\* unrecognized and no engine was supplied; a read failure is propagated unchanged
\* after a warning.
C10_ReadProtocol ==
  rpc # "idle" =>
    LET ext == rin.suffix
        unknown == MappedEngine(ext) = ""
    IN /\ rlog # <<>> => rlog[1] = "validate_file"
       /\ (rpc # "validate" /\ ~rin.exists)
            => (rpc = "raised" /\ rres = "FileNotFoundError" /\ rlog = <<"validate_file">>)
       /\ (rpc # "validate" /\ rin.exists /\ ~rin.readable)
            => (rpc = "raised" /\ rres = "PermissionError" /\ rlog = <<"validate_file">>)
       /\ rpc \in {"read", "returned", "except"} \/ ReadTried
            => /\ rin.engine.given => rkw = rin.engine
               /\ (~rin.engine.given /\ ~unknown)
                    => rkw = [given |-> TRUE, name |-> MappedEngine(ext)]
               /\ (~rin.engine.given /\ unknown) => ~rkw.given
               /\ Count(rlog, "warn_extension")
                    = (IF unknown /\ ~rin.engine.given THEN 1 ELSE 0)
       /\ rpc \in {"validate", "select"} => Count(rlog, "warn_extension") = 0
       /\ Count(rlog, "read_excel") <= 1
       /\ rpc = "returned" => (rres = "DataFrame" /\ rin.outcome = "ok")
       /\ (rpc = "raised" /\ ReadTried)
            => /\ rres = rin.outcome /\ rin.outcome # "ok"
               /\ rlog[Len(rlog) - 1] = "read_excel"
               /\ rlog[Len(rlog)] = (IF rin.outcome = "ImportError"
                                     THEN "warn_missing_package" ELSE "warn_read_error")

\* a .XLSX file read with the supplied engine "calamine": the read failed, the
\* warning was emitted and the reader's own error was raised
C10_Witness ==
  /\ rpc = "raised" /\ ReadTried
  /\ rin.suffix = Text(<<".", "X", "L", "S", "X">>)
  /\ rin.engine.given /\ rkw.name = "calamine"
  /\ rres = "ValueError" /\ rlog = <<"validate_file", "read_excel", "warn_read_error">>

====
